---- MODULE Spec2Model ----
(***************************************************************************)
(* Verification model of huistack-backend's lesson core: the video         *)
(* frame-extraction job (apps/lessons/video_jobs.py), the text functions   *)
(* (apps/lessons/utils.py) and the ingestion and upload endpoints          *)
(* (apps/lessons/api/v1).                                                  *)
(*                                                                         *)
(* Spec and FairSpec run the video job, TextSpec applies the text          *)
(* functions to every bounded input, IngestSpec runs one ingestion request *)
(* and UploadSpec the three endpoints that accept a video.                 *)
(*                                                                         *)
(* Persisted state is the LessonVideoJob rows, the stored video blobs,     *)
(* the Sentence.frame_image column and Lesson.has_video_frames.  Every     *)
(* invocation of process_lesson_video_job is a worker with its own         *)
(* in-memory copy of the job row; each database statement or storage call  *)
(* of the runner is one step, so that overlapping invocations interleave   *)
(* exactly where the code lets them.                                       *)
(*                                                                         *)
(* timezone.now() is modelled by the identity of the worker making the     *)
(* call: a run stamps each timestamp field at most once, so the token is   *)
(* unique per written value.  0 stands for NULL.                           *)
(***************************************************************************)
EXTENDS Integers, Sequences, FiniteSets, TLC

\* ---- bounds ----
NumJobs == 2
NumWorkers == 2
NumLessons == 2
MaxSent == 2

Jobs == 1..NumJobs
Workers == 1..NumWorkers
Lessons == 1..NumLessons
Sentences == 1..MaxSent

NULL == 0

\* ---- LessonVideoJob.Status ----
PENDING == "pending"
QUEUED == "queued"
PROCESSING == "processing"
COMPLETED == "completed"
FAILED == "failed"
\* no row with that id
ABSENT == "absent"

\* ---- messages written to error_message ----
MsgNoSentences == "No timestamped sentences were found for this lesson."
MsgNoOpenCv == "opencv-python is required to process lesson videos."
MsgUnableToOpen == "Unable to open uploaded video."
\* str(exc) of the FileNotFoundError raised when the uploaded video is gone
MsgNoSuchFile == "No such file or directory"
\* str(exc) of an error the storage backend raises while the video is read
MsgStorageError == "storage backend error"
\* str(exc) of an error the database raises for the save of line 123
MsgSaveFailed == "database error"

VARIABLES
    cv2,               \* the optional decoder library was imported
    timestamped,       \* sentences (by index) with start_ms not null, in every lesson
    frame_image,       \* lesson -> sentence -> job whose frame is stored, or NULL
    has_video_frames,  \* lesson -> Lesson.has_video_frames
    job,               \* job id -> persisted LessonVideoJob row
    stored,            \* job id -> the uploaded video bytes are in storage
    executor,          \* job id -> LESSON_VIDEO_JOB_EXECUTOR when the job was enqueued
    returned,          \* job id -> what create_lesson_video_job's caller has observed
    run                \* worker -> state of one invocation of process_lesson_video_job

video_vars == <<cv2, timestamped, frame_image, has_video_frames, job, stored,
                executor, returned, run>>

VARIABLES
    _HAS_JIEBA,        \* the optional segmenter library was imported
    call,              \* the text function applied and its arguments
    result             \* what the call returned

text_vars == <<_HAS_JIEBA, call, result>>

VARIABLES
    lemma_table,       \* Lemma.simplified of every row of the dictionary
    request,           \* the validated data of the ingestion request
    local,             \* the locals of the ingestion view handling it
    txn,               \* rows written inside the open transaction.atomic()
    db                 \* committed rows of Lesson, SourceText, Sentence, ...

ingest_vars == <<lemma_table, request, local, txn, db>>

VARIABLES
    uploads            \* the requests that carried a video, and their outcome

upload_vars == <<uploads>>

VARIABLES
    audio_url,         \* lesson -> Lesson.audio_url
    settings,          \* the LessonSettings row of one user for one lesson
    validated_data     \* the validated data of the last settings update

settings_vars == <<audio_url, settings, validated_data>>

VARIABLES
    connection         \* the database connection of a caller of create_lesson_video_job

vars == <<video_vars, text_vars, ingest_vars, upload_vars, settings_vars, connection>>

\* is_terminal as it would be if failed were not counted as terminal
is_terminal_completed_only(status) ==
    status = COMPLETED

\* LessonVideoJob.is_terminal
is_terminal(status) ==
    status \in {COMPLETED, FAILED}

\* Sentence.objects.filter(lesson=..).exclude(start_ms__isnull=True).order_by("index", "id")
TimestampedSentences(l) ==
    SelectSeq([i \in 1..MaxSent |-> i], LAMBDA s: s \in timestamped)

\* Sentence.objects.filter(lesson_id=.., frame_image__isnull=False).exists()
HasFrames(l) ==
    \E s \in Sentences: frame_image[l][s] # NULL

NoRow ==
    [lesson |-> NULL, status |-> ABSENT, error_message |-> "", total_frames |-> 0,
     processed_frames |-> 0, started_at |-> NULL, completed_at |-> NULL]

Idle ==
    [pc |-> "idle", job |-> NULL, via |-> "none", found |-> ABSENT,
     lesson |-> NULL, status |-> ABSENT, error_message |-> "",
     processed_frames |-> 0, started_at |-> NULL, completed_at |-> NULL,
     video_file |-> FALSE, sentences |-> <<>>, i |-> 0,
     temp_file_path |-> FALSE, tmp |-> FALSE, capture |-> "none",
     exc |-> "", has_frames |-> FALSE, next |-> "none",
     opens |-> 0, releases |-> 0, attempted |-> <<>>, saved |-> {}, flagged |-> FALSE]

\* no text function has been called
NoCall ==
    /\ _HAS_JIEBA = FALSE
    /\ call = [op |-> "none"]
    /\ result = [op |-> "none"]

\* no ingestion request has been made
NoIngestion ==
    /\ lemma_table = {}
    /\ request = [view |-> "none"]
    /\ local = [pc |-> "none"]
    /\ txn = <<>>
    /\ db = <<>>

\* no request has carried a video
NoUpload ==
    uploads = <<>>

\* a lesson without audio, the settings of models.py lines 45-50 and no update
NoSettings ==
    /\ audio_url = [l \in Lessons |-> ""]
    /\ settings = [lesson |-> 1, show_pinyin_only_for_unfamiliar |-> FALSE,
                   character_size |-> 28, show_frame_images |-> FALSE,
                   autoplay_audio_on_next |-> FALSE]
    /\ validated_data = [pc |-> "none", attrs |-> {},
                         values |-> [show_pinyin_only_for_unfamiliar |-> FALSE,
                                     character_size |-> 28,
                                     show_frame_images |-> FALSE,
                                     autoplay_audio_on_next |-> FALSE]]

\* a connection in autocommit mode: no atomic block was entered.  inserted
\* are the job rows written in the open block, which no other connection sees
\* yet; committed and rolled_back tell, by job id, the lesson of the rows that
\* blocks have committed and discarded.
NoTransaction ==
    connection = [in_atomic_block |-> FALSE,
                  inserted |-> [j \in Jobs |-> NoRow],
                  run_on_commit |-> <<>>,
                  committed |-> {},
                  rolled_back |-> [j \in Jobs |-> NULL]]

Init ==
    /\ NoCall /\ NoIngestion /\ NoUpload /\ NoSettings /\ NoTransaction
    /\ cv2 \in BOOLEAN
    /\ timestamped \in SUBSET Sentences
    /\ frame_image = [l \in Lessons |-> [s \in Sentences |-> NULL]]
    /\ has_video_frames = [l \in Lessons |-> FALSE]
    /\ job = [j \in Jobs |-> NoRow]
    /\ stored = [j \in Jobs |-> FALSE]
    /\ executor = [j \in Jobs |-> "none"]
    /\ returned = [j \in Jobs |-> "no"]
    /\ run = [w \in Workers |-> Idle]

\* the start of one call process_lesson_video_job(j)
Invocation(j, how) ==
    [Idle EXCEPT !.pc = "load", !.job = j, !.via = how]

\* enqueue_lesson_video_job as it would be if the synchronous branch returned
\* without calling the runner
enqueue_sync_skips_runner(j, setting) ==
    IF setting = "thread"
    THEN Invocation(j, "thread")
    ELSE [Invocation(j, "sync") EXCEPT !.pc = "done"]

\* enqueue_lesson_video_job: a new thread, or a call on the caller's thread,
\* either way one invocation of the runner with the job's id
enqueue_lesson_video_job(j, setting) ==
    IF setting = "thread" THEN Invocation(j, "thread") ELSE Invocation(j, "sync")

\* Worker w is the next one to start: each worker is one invocation of the
\* runner, and invocations are numbered in the order they start.
Free(w) ==
    /\ run[w].pc = "idle"
    /\ \A v \in Workers: v < w => run[v].pc # "idle"

\* the lesson job id k was handed out for, NULL if it is not in use: the row
\* may be visible, written in the open atomic block, or rolled back
IdLesson(k) ==
    IF job[k].status # ABSENT THEN job[k].lesson
    ELSE IF connection.inserted[k].status # ABSENT THEN connection.inserted[k].lesson
    ELSE connection.rolled_back[k]

\* Job ids and lesson ids are handed out in order.
Fresh(j, l) ==
    /\ IdLesson(j) = NULL
    /\ \A k \in Jobs: k < j => IdLesson(k) # NULL
    /\ \A m \in Lessons: m < l => \E k \in Jobs: IdLesson(k) = m

\* create_lesson_video_job as it would be if total_frames counted every
\* sentence of the lesson, timestamped or not
create_lesson_video_job_counting_every_sentence(j, l, setting, w) ==
    /\ Fresh(j, l)
    /\ Free(w)
    /\ job' = [job EXCEPT ![j] =
                  [lesson |-> l, status |-> QUEUED, error_message |-> "",
                   total_frames |-> Cardinality(Sentences),
                   processed_frames |-> 0, started_at |-> NULL, completed_at |-> NULL]]
    /\ stored' = [stored EXCEPT ![j] = TRUE]
    /\ executor' = [executor EXCEPT ![j] = setting]
    /\ run' = [run EXCEPT ![w] = enqueue_lesson_video_job(j, setting)]
    /\ UNCHANGED <<text_vars, ingest_vars, cv2, timestamped, frame_image,
                   has_video_frames, returned>>

\* create_lesson_video_job, called outside a transaction
create_lesson_video_job(j, l, setting, w) ==
    /\ Fresh(j, l)
    /\ Free(w)
    /\ job' = [job EXCEPT ![j] =
                  [lesson |-> l, status |-> QUEUED, error_message |-> "",
                   total_frames |-> Cardinality(timestamped),
                   processed_frames |-> 0, started_at |-> NULL, completed_at |-> NULL]]
    /\ stored' = [stored EXCEPT ![j] = TRUE]
    /\ executor' = [executor EXCEPT ![j] = setting]
    /\ run' = [run EXCEPT ![w] = enqueue_lesson_video_job(j, setting)]
    /\ UNCHANGED <<text_vars, ingest_vars, cv2, timestamped, frame_image,
                   has_video_frames, returned>>

\* a call of create_lesson_video_job by one of its callers
Create ==
    \E j \in Jobs, l \in Lessons, setting \in {"thread", "sync"}, w \in Workers:
        /\ create_lesson_video_job(j, l, setting, w)
        /\ UNCHANGED <<upload_vars, settings_vars, connection>>

\* what the caller of create_lesson_video_job finds when the call returns
Observed(j) ==
    IF is_terminal(job[j].status) THEN "finished" ELSE "unfinished"

\* with the thread executor the creating call returns while the job runs
CreateReturns ==
    \E j \in Jobs:
        /\ executor[j] = "thread"
        /\ returned[j] = "no"
        /\ returned' = [returned EXCEPT ![j] = Observed(j)]
        /\ UNCHANGED <<text_vars, ingest_vars, upload_vars, settings_vars, connection,
                       cv2,
                       timestamped, frame_image, has_video_frames, job, stored,
                       executor, run>>

\* a direct call process_lesson_video_job(job_id), as the tests make
DirectCall ==
    \E w \in Workers, j \in Jobs:
        /\ Free(w)
        /\ run' = [run EXCEPT ![w] = Invocation(j, "direct")]
        /\ UNCHANGED <<text_vars, ingest_vars, upload_vars, settings_vars, connection,
                       cv2,
                       timestamped, frame_image, has_video_frames, job, stored,
                       executor, returned>>

\* job.save(update_fields=fields): the named columns of the row take the
\* values of the worker's in-memory copy, the others keep their stored values
Save(r, fields) ==
    [job EXCEPT ![r.job] =
        [f \in DOMAIN job[r.job] |-> IF f \in fields THEN r[f] ELSE job[r.job][f]]]

\* process_lesson_video_job, lines 69-76: load the row, return if it is
\* missing or terminal
Load(w) ==
    LET r == run[w]
        row == job[r.job]
    IN  /\ r.pc = "load"
        /\ run' = [run EXCEPT ![w] =
                IF row.status = ABSENT
                THEN [r EXCEPT !.pc = "done", !.found = ABSENT]
                ELSE [r EXCEPT !.pc = IF is_terminal(row.status) THEN "done" ELSE "list",
                               !.found = row.status,
                               !.lesson = row.lesson,
                               !.status = row.status,
                               !.error_message = row.error_message,
                               !.processed_frames = row.processed_frames,
                               !.started_at = row.started_at,
                               !.completed_at = row.completed_at,
                               !.video_file = TRUE]]
        /\ UNCHANGED <<text_vars, ingest_vars, upload_vars, settings_vars, connection,
                       cv2,
                       timestamped, frame_image, has_video_frames, job, stored,
                       executor, returned>>

\* ListSentences as it would be without the early failures of lines 83-87
ListSentences_no_early_failure(w) ==
    LET r == run[w]
    IN  /\ r.pc = "list"
        /\ run' = [run EXCEPT ![w] =
                [r EXCEPT !.sentences = TimestampedSentences(r.lesson), !.pc = "mark"]]
        /\ UNCHANGED <<text_vars, ingest_vars, upload_vars, settings_vars, connection,
                       cv2,
                       timestamped, frame_image, has_video_frames, job, stored,
                       executor, returned>>

\* lines 78-87: list the timestamped sentences, fail early without sentences
\* or without the decoder library
ListSentences(w) ==
    LET r == run[w]
        sentences == TimestampedSentences(r.lesson)
    IN  /\ r.pc = "list"
        /\ run' = [run EXCEPT ![w] =
                [r EXCEPT !.sentences = sentences,
                          !.pc = IF sentences = <<>> THEN "fail_no_sentences"
                                 ELSE IF ~cv2 THEN "fail_no_cv2"
                                 ELSE "mark"]]
        /\ UNCHANGED <<text_vars, ingest_vars, upload_vars, settings_vars, connection,
                       cv2,
                       timestamped, frame_image, has_video_frames, job, stored,
                       executor, returned>>

\* _fail_job as it would be if it only recomputed the flag and cleaned up
_fail_job_without_save(w, at, message) ==
    LET r == run[w]
    IN  /\ r.pc = at
        /\ run' = [run EXCEPT ![w] = [r EXCEPT !.pc = "flag_read", !.next = "cleanup"]]
        /\ UNCHANGED <<text_vars, ingest_vars, upload_vars, settings_vars, connection,
                       cv2,
                       timestamped, frame_image, has_video_frames, job, stored,
                       executor, returned>>

\* _fail_job, lines 176-179: mark the job failed and save
_fail_job(w, at, message) ==
    LET r == run[w]
        failed == [r EXCEPT !.status = FAILED, !.error_message = message,
                            !.completed_at = w]
    IN  /\ r.pc = at
        /\ job' = Save(failed, {"status", "error_message", "completed_at"})
        /\ run' = [run EXCEPT ![w] = [failed EXCEPT !.pc = "flag_read", !.next = "cleanup"]]
        /\ UNCHANGED <<text_vars, ingest_vars, upload_vars, settings_vars, connection,
                       cv2,
                       timestamped, frame_image, has_video_frames, stored,
                       executor, returned>>

FailNoSentences(w) ==
    _fail_job(w, "fail_no_sentences", MsgNoSentences)

FailNoCv2(w) ==
    _fail_job(w, "fail_no_cv2", MsgNoOpenCv)

\* lines 89-101: enter processing
MarkProcessing(w) ==
    LET r == run[w]
        started == [r EXCEPT !.status = PROCESSING, !.started_at = w,
                             !.error_message = "", !.processed_frames = 0]
    IN  /\ r.pc = "mark"
        /\ job' = Save(started, {"status", "started_at", "error_message", "processed_frames"})
        /\ run' = [run EXCEPT ![w] = [started EXCEPT !.pc = "materialize"]]
        /\ UNCHANGED <<text_vars, ingest_vars, upload_vars, settings_vars, connection,
                       cv2,
                       timestamped, frame_image, has_video_frames, stored,
                       executor, returned>>

\* _materialize_video, lines 106 and 149-156: the temp file is created first,
\* then the stored video is opened and copied; opening a deleted video raises,
\* as does a storage backend that fails (readable is false), and the path of
\* the temp file is lost
Materialize(w, readable) ==
    LET r == run[w]
    IN  /\ r.pc = "materialize"
        /\ run' = [run EXCEPT ![w] =
                IF stored[r.job] /\ readable
                THEN [r EXCEPT !.tmp = TRUE, !.temp_file_path = TRUE, !.pc = "open"]
                ELSE [r EXCEPT !.tmp = TRUE, !.pc = "except",
                               !.exc = IF stored[r.job] THEN MsgStorageError
                                       ELSE MsgNoSuchFile]]
        /\ UNCHANGED <<text_vars, ingest_vars, upload_vars, settings_vars, connection,
                       cv2,
                       timestamped, frame_image, has_video_frames, job, stored,
                       executor, returned>>

\* lines 107-109: open the decoder on the temp copy; isOpened is the
\* decoder's answer for that upload
OpenCapture(w, isOpened) ==
    LET r == run[w]
    IN  /\ r.pc = "open"
        /\ run' = [run EXCEPT ![w] =
                IF isOpened
                THEN [r EXCEPT !.capture = "open", !.opens = @ + 1, !.i = 1,
                               !.pc = "capture"]
                ELSE [r EXCEPT !.capture = "closed", !.opens = @ + 1,
                               !.exc = MsgUnableToOpen, !.pc = "except"]]
        /\ UNCHANGED <<text_vars, ingest_vars, upload_vars, settings_vars, connection,
                       cv2,
                       timestamped, frame_image, has_video_frames, job, stored,
                       executor, returned>>

\* the for statement of line 111: the next sentence, or the end of the loop
NextSentence(r) ==
    IF r.i < Len(r.sentences)
    THEN [r EXCEPT !.i = @ + 1, !.pc = "capture"]
    ELSE [r EXCEPT !.pc = "complete"]

\* ExtractFrame as it would be without the try/except of lines 112-120: a
\* failed capture reaches the handler of line 130
ExtractFrame_unguarded(w, captured) ==
    LET r == run[w]
        s == r.sentences[r.i]
        tried == [r EXCEPT !.attempted = Append(@, s)]
    IN  /\ r.pc = "capture"
        /\ IF captured
           THEN /\ frame_image' = [frame_image EXCEPT ![r.lesson][s] = r.job]
                /\ run' = [run EXCEPT ![w] =
                              [tried EXCEPT !.saved = @ \cup {s}, !.pc = "progress"]]
           ELSE /\ frame_image' = frame_image
                /\ run' = [run EXCEPT ![w] =
                              [tried EXCEPT !.exc = "Unable to capture frame", !.pc = "except"]]
        /\ UNCHANGED <<text_vars, ingest_vars, upload_vars, settings_vars, connection,
                       cv2,
                       timestamped, has_video_frames, job, stored,
                       executor, returned>>

\* lines 112-120 and _extract_frame_for_sentence: seek, read, encode and store
\* the frame on the sentence; any failure (captured is false) is caught and
\* the sentence skipped
ExtractFrame(w, captured) ==
    LET r == run[w]
        s == r.sentences[r.i]
        tried == [r EXCEPT !.attempted = Append(@, s)]
    IN  /\ r.pc = "capture"
        /\ IF captured
           THEN /\ frame_image' = [frame_image EXCEPT ![r.lesson][s] = r.job]
                /\ run' = [run EXCEPT ![w] =
                              [tried EXCEPT !.saved = @ \cup {s}, !.pc = "progress"]]
           ELSE /\ frame_image' = frame_image
                /\ run' = [run EXCEPT ![w] = NextSentence(tried)]
        /\ UNCHANGED <<text_vars, ingest_vars, upload_vars, settings_vars, connection,
                       cv2,
                       timestamped, has_video_frames, job, stored,
                       executor, returned>>

\* lines 121-123: count the frame and persist the counter; a save that
\* raises (saves is false) writes nothing and leaves the loop for line 130
SaveProgress(w, saves) ==
    LET r == run[w]
        counted == [r EXCEPT !.processed_frames = @ + 1]
    IN  /\ r.pc = "progress"
        /\ IF saves
           THEN /\ job' = Save(counted, {"processed_frames"})
                /\ run' = [run EXCEPT ![w] = NextSentence(counted)]
           ELSE /\ job' = job
                /\ run' = [run EXCEPT ![w] =
                              [counted EXCEPT !.exc = MsgSaveFailed, !.pc = "except"]]
        /\ UNCHANGED <<text_vars, ingest_vars, upload_vars, settings_vars, connection,
                       cv2,
                       timestamped, frame_image, has_video_frames, stored,
                       executor, returned>>

\* lines 125-127: mark the job completed
Complete(w) ==
    LET r == run[w]
        completed == [r EXCEPT !.status = COMPLETED, !.completed_at = w]
    IN  /\ r.pc = "complete"
        /\ job' = Save(completed, {"status", "completed_at"})
        /\ run' = [run EXCEPT ![w] = [completed EXCEPT !.pc = "flag_read", !.next = "finally"]]
        /\ UNCHANGED <<text_vars, ingest_vars, upload_vars, settings_vars, connection,
                       cv2,
                       timestamped, frame_image, has_video_frames, stored,
                       executor, returned>>

\* Except as it would be if the handler recorded the message without failing
\* the job
Except_keeps_status(w) ==
    LET r == run[w]
        noted == [r EXCEPT !.error_message = r.exc]
    IN  /\ r.pc = "except"
        /\ job' = Save(noted, {"error_message"})
        /\ run' = [run EXCEPT ![w] = [noted EXCEPT !.pc = "flag_read", !.next = "finally"]]
        /\ UNCHANGED <<text_vars, ingest_vars, upload_vars, settings_vars, connection,
                       cv2,
                       timestamped, frame_image, has_video_frames, stored,
                       executor, returned>>

\* lines 130-135: an exception outside the per-sentence guard fails the job
Except(w) ==
    LET r == run[w]
        failed == [r EXCEPT !.error_message = r.exc, !.status = FAILED,
                            !.completed_at = w]
    IN  /\ r.pc = "except"
        /\ job' = Save(failed, {"status", "error_message", "completed_at"})
        /\ run' = [run EXCEPT ![w] = [failed EXCEPT !.pc = "flag_read", !.next = "finally"]]
        /\ UNCHANGED <<text_vars, ingest_vars, upload_vars, settings_vars, connection,
                       cv2,
                       timestamped, frame_image, has_video_frames, stored,
                       executor, returned>>

\* _update_lesson_video_flag, lines 195-197: the exists() query
FlagRead(w) ==
    LET r == run[w]
    IN  /\ r.pc = "flag_read"
        /\ run' = [run EXCEPT ![w] =
                      [r EXCEPT !.has_frames = HasFrames(r.lesson), !.pc = "flag_write"]]
        /\ UNCHANGED <<text_vars, ingest_vars, upload_vars, settings_vars, connection,
                       cv2,
                       timestamped, frame_image, has_video_frames, job, stored,
                       executor, returned>>

\* _update_lesson_video_flag, line 198: the update() statement
FlagWrite(w) ==
    LET r == run[w]
    IN  /\ r.pc = "flag_write"
        /\ has_video_frames' = [has_video_frames EXCEPT ![r.lesson] = r.has_frames]
        /\ run' = [run EXCEPT ![w] = [r EXCEPT !.pc = r.next, !.flagged = TRUE]]
        /\ UNCHANGED <<text_vars, ingest_vars, upload_vars, settings_vars, connection,
                       cv2,
                       timestamped, frame_image, job, stored,
                       executor, returned>>

\* _cleanup_video as it would be if the delete were left out
VideoKept(r) ==
    stored

\* _cleanup_video, lines 185-191, on the worker's copy r of the job
VideoDeleted(r) ==
    IF r.video_file THEN [stored EXCEPT ![r.job] = FALSE] ELSE stored

\* line 181: the cleanup that ends _fail_job
Cleanup(w) ==
    LET r == run[w]
    IN  /\ r.pc = "cleanup"
        /\ stored' = VideoDeleted(r)
        /\ run' = [run EXCEPT ![w] = [r EXCEPT !.video_file = FALSE, !.pc = "done"]]
        /\ UNCHANGED <<text_vars, ingest_vars, upload_vars, settings_vars, connection,
                       cv2,
                       timestamped, frame_image, has_video_frames, job,
                       executor, returned>>

\* Finally as it would be if the decoder were released only when it had
\* reported itself opened
Finally_release_only_if_opened(w) ==
    LET r == run[w]
    IN  /\ r.pc = "finally"
        /\ stored' = VideoDeleted(r)
        /\ run' = [run EXCEPT ![w] =
                      [r EXCEPT !.capture = IF @ = "open" THEN "released" ELSE @,
                                !.releases = IF r.capture = "open" THEN @ + 1 ELSE @,
                                !.tmp = IF r.temp_file_path THEN FALSE ELSE @,
                                !.video_file = FALSE,
                                !.pc = "done"]]
        /\ UNCHANGED <<text_vars, ingest_vars, upload_vars, settings_vars, connection,
                       cv2,
                       timestamped, frame_image, has_video_frames, job,
                       executor, returned>>

\* lines 138-146: release the decoder, remove the temp copy, delete the video
Finally(w) ==
    LET r == run[w]
    IN  /\ r.pc = "finally"
        /\ stored' = VideoDeleted(r)
        /\ run' = [run EXCEPT ![w] =
                      [r EXCEPT !.capture = IF @ = "none" THEN "none" ELSE "released",
                                !.releases = IF r.capture = "none" THEN @ ELSE @ + 1,
                                !.tmp = IF r.temp_file_path THEN FALSE ELSE @,
                                !.video_file = FALSE,
                                !.pc = "done"]]
        /\ UNCHANGED <<text_vars, ingest_vars, upload_vars, settings_vars, connection,
                       cv2,
                       timestamped, frame_image, has_video_frames, job,
                       executor, returned>>

\* process_lesson_video_job returns and its locals are gone; a synchronous
\* dispatch thereby lets create_lesson_video_job return to its caller
Return(w) ==
    LET r == run[w]
    IN  /\ r.pc = "done"
        /\ run' = [run EXCEPT ![w] = [Invocation(r.job, r.via) EXCEPT !.pc = "returned"]]
        /\ returned' = IF r.via = "sync"
                       THEN [returned EXCEPT ![r.job] = Observed(r.job)]
                       ELSE returned
        /\ UNCHANGED <<text_vars, ingest_vars, upload_vars, settings_vars, connection,
                       cv2,
                       timestamped, frame_image, has_video_frames, job, stored,
                       executor>>

Next ==
    \/ Create
    \/ CreateReturns
    \/ DirectCall
    \/ \E w \in Workers: Load(w)
    \/ \E w \in Workers: ListSentences(w)
    \/ \E w \in Workers: FailNoSentences(w)
    \/ \E w \in Workers: FailNoCv2(w)
    \/ \E w \in Workers: MarkProcessing(w)
    \/ \E w \in Workers, readable \in BOOLEAN: Materialize(w, readable)
    \/ \E w \in Workers, isOpened \in BOOLEAN: OpenCapture(w, isOpened)
    \/ \E w \in Workers, captured \in BOOLEAN: ExtractFrame(w, captured)
    \/ \E w \in Workers, saves \in BOOLEAN: SaveProgress(w, saves)
    \/ \E w \in Workers: Complete(w)
    \/ \E w \in Workers: Except(w)
    \/ \E w \in Workers: FlagRead(w)
    \/ \E w \in Workers: FlagWrite(w)
    \/ \E w \in Workers: Cleanup(w)
    \/ \E w \in Workers: Finally(w)
    \/ \E w \in Workers: Return(w)

Spec ==
    Init /\ [][Next]_vars

\* one step of the invocation w of process_lesson_video_job
RunnerStep(w) ==
    \/ Load(w)
    \/ ListSentences(w)
    \/ FailNoSentences(w)
    \/ FailNoCv2(w)
    \/ MarkProcessing(w)
    \/ \E readable \in BOOLEAN: Materialize(w, readable)
    \/ \E isOpened \in BOOLEAN: OpenCapture(w, isOpened)
    \/ \E captured \in BOOLEAN: ExtractFrame(w, captured)
    \/ \E saves \in BOOLEAN: SaveProgress(w, saves)
    \/ Complete(w)
    \/ Except(w)
    \/ FlagRead(w)
    \/ FlagWrite(w)
    \/ Cleanup(w)
    \/ Finally(w)
    \/ Return(w)

\* the started invocations keep being scheduled and each call they make
\* returns or raises: while one of them has a step to take, one is taken
FairSpec ==
    Spec /\ WF_vars(\E w \in Workers: RunnerStep(w))

\* ------------------------------------------------------------------
\* Properties
\* ------------------------------------------------------------------

\* the invocations, other than w, made for the job of w
Others(w) ==
    {v \in Workers \ {w}: run[v].pc # "idle" /\ run[v].job = run[w].job}

\* the invocations, other than w, made for a job of the lesson of w
OthersOnLesson(w) ==
    {v \in Workers \ {w}: run[v].pc # "idle" /\ job[run[v].job].lesson = run[w].lesson}

\* w is a run that found its job not terminal and has reached its return
Finished(w) ==
    run[w].pc = "done" /\ run[w].found \notin {ABSENT, COMPLETED, FAILED}

\* C1: an invocation that finds the job completed or failed is one step that
\* returns without changing the job row, any frame, the stored video or the
\* lesson flag, and without opening a decoder or attempting a capture.
C1_TerminalIsNoOp ==
    [][\A w \in Workers:
          (/\ run[w].pc = "load"
           /\ job[run[w].job].status \in {COMPLETED, FAILED}
           /\ run'[w] # run[w])
          => /\ job' = job
             /\ frame_image' = frame_image
             /\ has_video_frames' = has_video_frames
             /\ stored' = stored
             /\ run'[w].pc = "done"
             /\ run'[w].opens = 0
             /\ run'[w].attempted = <<>>
             /\ run'[w].saved = {}]_vars

\* a second invocation has returned at once from a job an earlier run completed
C1_Witness ==
    \E w \in Workers:
        /\ run[w].pc = "done"
        /\ run[w].found \in {COMPLETED, FAILED}
        /\ \E v \in Others(w): run[v].pc = "returned"

\* C2: with no timestamped sentence a job is only ever queued or failed, its
\* started_at stays null, a failed job carries the no-sentences message, no
\* invocation opens a decoder, and every run that found the job leaves it failed.
C2_NoSentencesDirectlyFailed ==
    timestamped = {} =>
        /\ \A j \in Jobs:
              /\ job[j].status \in {ABSENT, QUEUED, FAILED}
              /\ job[j].started_at = NULL
              /\ job[j].status = FAILED =>
                    job[j].error_message = MsgNoSentences /\ job[j].error_message # ""
        /\ \A w \in Workers:
              /\ run[w].opens = 0
              /\ run[w].capture = "none"
              /\ Finished(w) => job[run[w].job].status = FAILED

\* a run has failed a queued job for want of timestamped sentences
C2_Witness ==
    /\ timestamped = {}
    /\ \E w \in Workers:
          Finished(w) /\ run[w].found = QUEUED /\ job[run[w].job].status = FAILED

\* C3: a single run on a queued job whose decoder opened, and whose saves of
\* the progress counter did not raise, attempts all N
\* timestamped sentences, leaves the job completed with processed_frames equal
\* to the number of captures that succeeded, and every sentence whose capture
\* succeeded has a frame; when no other job of the lesson was run, the
\* sentences with a frame are exactly those, each holding this job's frame.
C3_PartialFailureCompletes ==
    \A w \in Workers:
        (/\ Finished(w)
         /\ run[w].found = QUEUED
         /\ Others(w) = {}
         /\ run[w].opens = 1
         /\ run[w].i >= 1
         /\ run[w].exc # MsgSaveFailed)
        => LET j == run[w].job
               l == run[w].lesson
               N == Cardinality(timestamped)
               k == Len(run[w].attempted) - Cardinality(run[w].saved)
           IN  /\ N >= 1
               /\ Len(run[w].attempted) = N
               /\ job[j].status = COMPLETED
               /\ job[j].processed_frames = N - k
               /\ \A s \in run[w].saved: frame_image[l][s] # NULL
               /\ OthersOnLesson(w) = {} =>
                     \A s \in Sentences:
                         /\ frame_image[l][s] # NULL <=> s \in run[w].saved
                         /\ frame_image[l][s] \in {NULL, j}

\* a run over two sentences, one capture failed and one succeeded
C3_Witness ==
    \E w \in Workers:
        /\ Finished(w)
        /\ run[w].found = QUEUED
        /\ Others(w) = {}
        /\ run[w].i >= 1
        /\ Len(run[w].attempted) = 2
        /\ Cardinality(run[w].saved) = 1
        /\ job[run[w].job].processed_frames = 1

C5_ProcessingIsALock ==
    /\ \A w \in Workers:
          run[w].found = PROCESSING =>
              /\ run[w].started_at # w
              /\ run[w].opens = 0
              /\ run[w].attempted = <<>>
    /\ \A w, v \in Workers:
          (w # v /\ run[w].job = run[v].job)
          => ~(run[w].pc \in {"capture", "progress"} /\ run[v].pc \in {"capture", "progress"})

\* C6 as stated: no step lowers the persisted processed_frames of a job.
C6_ProcessedFramesMonotonic ==
    [][\A j \in Jobs: job'[j].processed_frames >= job[j].processed_frames]_vars

\* C7 as stated: once the persisted status is completed or failed, no step
\* changes the job row.
C7_TerminalIsImmutable ==
    [][\A j \in Jobs: job[j].status \in {COMPLETED, FAILED} => job'[j] = job[j]]_vars

C9_FlagRecomputationIsSafe ==
    (/\ \A w \in Workers: run[w].pc \in {"idle", "done", "returned"}
     /\ \A w \in Workers: Others(w) = {})
    => \A l \in Lessons: has_video_frames[l] = HasFrames(l)

\* the persisted outcome of a run: the job row without its timestamps and
\* lesson, the sentences with a frame, the lesson flag, the stored video
Outcome(w) ==
    LET j == run[w].job
        l == run[w].lesson
    IN  [status |-> job[j].status,
         processed_frames |-> job[j].processed_frames,
         total_frames |-> job[j].total_frames,
         error_message |-> job[j].error_message,
         started |-> job[j].started_at # NULL,
         completed |-> job[j].completed_at # NULL,
         frames |-> {s \in Sentences: frame_image[l][s] # NULL},
         has_video_frames |-> has_video_frames[l],
         stored |-> stored[j]]

\* C10: two jobs of two lessons with the same sentences, one dispatched by a
\* thread and one synchronously, each run once and with the same decoder
\* answers, end in the same persisted outcome; and the caller of a synchronous
\* dispatch gets control back only when the job has finished.
C10_DispatchModeEquivalent ==
    /\ \A w, v \in Workers:
          (/\ run[w].pc = "done" /\ run[w].via = "thread"
           /\ run[v].pc = "done" /\ run[v].via = "sync"
           /\ OthersOnLesson(w) = {} /\ OthersOnLesson(v) = {}
           /\ run[w].exc = run[v].exc
           /\ run[w].saved = run[v].saved)
          => Outcome(w) = Outcome(v)
    /\ \A w \in Workers:
          (run[w].pc = "returned" /\ run[w].via = "sync" /\ Others(w) = {})
          => returned[run[w].job] = "finished"

\* both dispatch modes have run a job to completion with a frame saved, and
\* the caller of the thread dispatch got control back before the job finished
C10_Witness ==
    \E w, v \in Workers:
        /\ run[w].pc = "done" /\ run[w].via = "thread"
        /\ run[v].pc = "done" /\ run[v].via = "sync"
        /\ OthersOnLesson(w) = {} /\ OthersOnLesson(v) = {}
        /\ run[w].saved = run[v].saved
        /\ run[w].saved # {}
        /\ job[run[w].job].status = COMPLETED
        /\ returned[run[w].job] = "unfinished"

\* C11: an exception raised while materialising the video, opening the decoder
\* or saving the progress counter is raised by a run that has entered
\* processing; the handler's step persists failed, the exception's text and
\* completed_at; from then on the run writes the job row no more, so it never
\* marks it completed or processing; and when the run was the job's only
\* invocation it ends with the job failed, carrying that text and completed_at.
C11_ExceptionFailsJob ==
    /\ [](\A w \in Workers:
            run[w].exc # "" =>
                /\ run[w].started_at = w
                /\ run[w].pc \in {"except", "flag_read", "flag_write", "finally", "done"}
                /\ run[w].pc # "except" =>
                      /\ run[w].status = FAILED
                      /\ run[w].error_message = run[w].exc
                      /\ run[w].completed_at = w
                /\ (run[w].pc = "done" /\ Others(w) = {}) =>
                      /\ job[run[w].job].status = FAILED
                      /\ job[run[w].job].error_message = run[w].exc
                      /\ job[run[w].job].completed_at # NULL)
    /\ [][\A w \in Workers:
            (run[w].exc # "" /\ run'[w] # run[w]) =>
                IF run[w].pc = "except"
                THEN /\ job'[run[w].job].status = FAILED
                     /\ job'[run[w].job].error_message = run[w].exc
                     /\ job'[run[w].job].completed_at # NULL
                ELSE job' = job]_vars

\* two jobs, each run once: one failed by a storage error while the video was
\* materialised, the other by a save of the progress counter that raised
C11_Witness ==
    \E w, v \in Workers:
        /\ run[w].pc = "done" /\ run[v].pc = "done"
        /\ Others(w) = {} /\ Others(v) = {}
        /\ run[w].exc = MsgStorageError
        /\ run[v].exc = MsgSaveFailed
        /\ job[run[w].job].status = FAILED
        /\ job[run[v].job].status = FAILED
        /\ job[run[v].job].error_message = MsgSaveFailed

\* C12: a run that found its job ends having written completed or failed, and
\* leaves the job so when it was the job's only invocation; and, the
\* invocations being scheduled, every created job is eventually completed or
\* failed for good: from some point on no job is pending, queued or processing.
C12_EveryJobTerminates ==
    /\ [](\A w \in Workers:
            (run[w].pc = "done" /\ run[w].found # ABSENT) =>
                /\ run[w].status \in {COMPLETED, FAILED}
                /\ Others(w) = {} => job[run[w].job].status \in {COMPLETED, FAILED})
    /\ <>[](\A j \in Jobs: job[j].status \in {ABSENT, COMPLETED, FAILED})

\* two jobs, each with a single invocation that has reached its return: one
\* left completed, the other failed
C12_Witness ==
    \E w, v \in Workers:
        /\ run[w].pc = "done" /\ run[v].pc = "done"
        /\ Others(w) = {} /\ Others(v) = {}
        /\ run[w].found = QUEUED /\ run[v].found = QUEUED
        /\ job[run[w].job].status = COMPLETED
        /\ job[run[v].job].status = FAILED

\* ------------------------------------------------------------------
\* Text functions (apps/lessons/utils.py)
\*
\* A character is a one-element token: an ASCII character stands for itself,
\* any other is written by its code point ("U+3002" is the ideographic full
\* stop).  A string is the sequence of its characters.
\* ------------------------------------------------------------------

\* SENT_END, line 15
SENT_END ==
    {"U+3002", "U+FF01", "U+FF1F", "!", "?", "U+FF1B", ";", "U+203D"}

\* PUNCT_CHARS, line 16
PUNCT_CHARS ==
    {"U+FF0C", "U+3002", "U+FF01", "U+FF1F", "U+FF1B", "U+FF1A", "U+3001",
     "U+FF08", "U+FF09", "U+300A", "U+300B", "U+201C", "U+201D", "U+2018",
     "U+2019", "U+2014", "U+2026", "U+00B7",
     ",", ".", ";", ":", "!", "?", "(", ")", "[", "]", "\"", "'"}

\* the characters str.isspace() and str.strip() take for whitespace
Whitespace ==
    {" ", "\t", "\n", "\r", "U+3000"}

AsciiDigits ==
    {"0", "1", "2", "3", "4", "5", "6", "7", "8", "9"}

AsciiLetters ==
    {"a", "b", "c", "d", "e", "f", "g", "h", "i", "j", "k", "l", "m",
     "n", "o", "p", "q", "r", "s", "t", "u", "v", "w", "x", "y", "z",
     "A", "B", "C", "D", "E", "F", "G", "H", "I", "J", "K", "L", "M",
     "N", "O", "P", "Q", "R", "S", "T", "U", "V", "W", "X", "Y", "Z"}

\* the characters str.isdigit() accepts: the ASCII digits and others, such as
\* the fullwidth digit one
UnicodeDigits ==
    AsciiDigits \cup {"U+FF11"}

\* _is_ascii_letter_or_digit, lines 34-35
_is_ascii_letter_or_digit(ch) ==
    ch \in AsciiDigits \/ ch \in AsciiLetters

\* str.isspace(): not empty and every character is whitespace
isspace(s) ==
    s # <<>> /\ \A k \in 1..Len(s): s[k] \in Whitespace

\* str.isdigit(): not empty and every character is a digit
isdigit(s) ==
    s # <<>> /\ \A k \in 1..Len(s): s[k] \in UnicodeDigits

\* str.lstrip()
RECURSIVE lstrip(_)
lstrip(s) ==
    IF s # <<>> /\ Head(s) \in Whitespace THEN lstrip(Tail(s)) ELSE s

\* str.rstrip()
RECURSIVE rstrip(_)
rstrip(s) ==
    IF s # <<>> /\ s[Len(s)] \in Whitespace THEN rstrip(SubSeq(s, 1, Len(s) - 1)) ELSE s

\* str.strip()
strip(s) ==
    rstrip(lstrip(s))

\* the loop of split_sentences, lines 22-30, over the characters not yet read
RECURSIVE SplitLoop(_, _, _)
SplitLoop(rest, buf, parts) ==
    IF rest = <<>>
    THEN IF buf # <<>> /\ strip(buf) # <<>> THEN Append(parts, strip(buf)) ELSE parts
    ELSE LET ch == Head(rest)
             appended == Append(buf, ch)
         IN  IF ch \in SENT_END
             THEN SplitLoop(Tail(rest), <<>>, Append(parts, strip(appended)))
             ELSE SplitLoop(Tail(rest), appended, parts)

\* split_sentences as it would be if the tail after the last terminal were
\* left out
split_sentences_without_tail(text) ==
    LET parts == SplitLoop(strip(text), <<>>, <<>>)
    IN  IF parts # <<>> /\ parts[Len(parts)][Len(parts[Len(parts)])] \notin SENT_END
        THEN SubSeq(parts, 1, Len(parts) - 1)
        ELSE parts

\* split_sentences, lines 19-31
split_sentences(text) ==
    SplitLoop(strip(text), <<>>, <<>>)

\* the end of the run of whitespace that starts at i: lines 52-54
SpaceRunEnd(text, i) ==
    CHOOSE j \in (i + 1)..(Len(text) + 1):
        /\ \A k \in (i + 1)..(j - 1): text[k] \in Whitespace
        /\ j <= Len(text) => text[j] \notin Whitespace

\* the end of the run of ASCII letters and digits that starts at i: lines 59-61
AlnumRunEnd(text, i) ==
    CHOOSE j \in (i + 1)..(Len(text) + 1):
        /\ \A k \in (i + 1)..(j - 1): _is_ascii_letter_or_digit(text[k])
        /\ j <= Len(text) => ~_is_ascii_letter_or_digit(text[j])

\* the fallback scanner of tokenize, lines 46-66, from index i on
RECURSIVE Scan(_, _)
Scan(text, i) ==
    IF i > Len(text) THEN <<>>
    ELSE IF text[i] \in Whitespace
         THEN <<SubSeq(text, i, SpaceRunEnd(text, i) - 1)>> \o Scan(text, SpaceRunEnd(text, i))
    ELSE IF _is_ascii_letter_or_digit(text[i])
         THEN <<SubSeq(text, i, AlnumRunEnd(text, i) - 1)>> \o Scan(text, AlnumRunEnd(text, i))
    ELSE <<<<text[i]>>>> \o Scan(text, i + 1)

\* lines 72-81: the kind of a raw token
Kind(t) ==
    IF isspace(t) THEN "space"
    ELSE IF Len(t) = 1 /\ t[1] \in PUNCT_CHARS THEN "punct"
    ELSE IF isdigit(t) THEN "number"
    ELSE IF \A k \in 1..Len(t): _is_ascii_letter_or_digit(t[k]) THEN "latin"
    ELSE "word"

\* lines 68-83: drop the empty raw tokens and pair each other one with its kind
RECURSIVE Classify(_)
Classify(raw_tokens) ==
    IF raw_tokens = <<>> THEN <<>>
    ELSE IF Head(raw_tokens) = <<>> THEN Classify(Tail(raw_tokens))
    ELSE <<[text |-> Head(raw_tokens), kind |-> Kind(Head(raw_tokens))]>>
         \o Classify(Tail(raw_tokens))

\* tokenize as it would be if the scanner dropped whitespace
tokenize_dropping_space(text, has_jieba, lcut) ==
    Classify(IF has_jieba THEN lcut
             ELSE SelectSeq(Scan(text, 1), LAMBDA t: ~isspace(t)))

\* tokenize, lines 38-83; lcut is what jieba.lcut(text) returns
tokenize(text, has_jieba, lcut) ==
    Classify(IF has_jieba THEN lcut ELSE Scan(text, 1))

\* None, for a column or local that holds a number of milliseconds
None == -1

\* s[i..] starts with the string sep
StartsWith(s, i, sep) ==
    /\ i + Len(sep) - 1 <= Len(s)
    /\ \A k \in 1..Len(sep): s[i + k - 1] = sep[k]

\* sep in s
Contains(s, sep) ==
    \E i \in 1..Len(s): StartsWith(s, i, sep)

\* s.split(sep), from index i on, cur being the part read so far
RECURSIVE SplitFrom(_, _, _, _)
SplitFrom(s, i, sep, cur) ==
    IF i > Len(s) THEN <<cur>>
    ELSE IF StartsWith(s, i, sep)
         THEN <<cur>> \o SplitFrom(s, i + Len(sep), sep, <<>>)
    ELSE SplitFrom(s, i + 1, sep, Append(cur, s[i]))

\* int() of one digit
DigitValue(ch) ==
    IF ch = "U+FF11" THEN 1
    ELSE CHOOSE v \in 0..9: <<"0", "1", "2", "3", "4", "5", "6", "7", "8", "9">>[v + 1] = ch

\* int() of a string of digits
RECURSIVE int(_)
int(s) ==
    IF s = <<>> THEN 0 ELSE 10 * int(SubSeq(s, 1, Len(s) - 1)) + DigitValue(s[Len(s)])

\* the groups of ^(\d{1,2}):(\d{2}):(\d{2}),(\d{3})$ in ts, or <<>> without a match
TimestampGroups(ts) ==
    LET h == IF Len(ts) = 12 THEN 2 ELSE 1
        groups == <<SubSeq(ts, 1, h), SubSeq(ts, h + 2, h + 3),
                    SubSeq(ts, h + 5, h + 6), SubSeq(ts, h + 8, h + 10)>>
    IN  IF /\ Len(ts) \in {11, 12}
           /\ ts[h + 1] = ":" /\ ts[h + 4] = ":" /\ ts[h + 7] = ","
           /\ \A g \in 1..4: isdigit(groups[g])
        THEN groups
        ELSE <<>>

\* _parse_srt_timestamp as it would be if the hours were left out
_parse_srt_timestamp_without_hours(ts) ==
    LET m == TimestampGroups(strip(ts))
    IN  IF m = <<>> THEN None
        ELSE (int(m[2]) * 60 + int(m[3])) * 1000 + int(m[4])

\* _parse_srt_timestamp, lines 116-123; None stands for the ValueError
_parse_srt_timestamp(ts) ==
    LET m == TimestampGroups(strip(ts))
    IN  IF m = <<>> THEN None
        ELSE ((int(m[1]) * 60 + int(m[2])) * 60 + int(m[3])) * 1000 + int(m[4])

\* the first index from i on of a line that is blank, or is not (blank is
\* false), or the number of lines plus one: the while loops of lines 138,
\* 153, 162, 167 and 174
RECURSIVE SkipWhile(_, _, _)
SkipWhile(lines, i, blank) ==
    IF i <= Len(lines) /\ ((strip(lines[i]) = <<>>) = blank)
    THEN SkipWhile(lines, i + 1, blank)
    ELSE i

\* " ".join(text_lines) of the stripped lines i..j-1
RECURSIVE JoinLines(_, _, _)
JoinLines(lines, i, j) ==
    IF i >= j THEN <<>>
    ELSE IF i = j - 1 THEN strip(lines[i])
    ELSE strip(lines[i]) \o <<" ">> \o JoinLines(lines, i + 1, j)

\* lines 156-159: the two timestamps of a timestamp line, or <<>> when the
\* line does not split in two or a timestamp does not parse
CueTimes(ts_line) ==
    LET parts == SplitFrom(ts_line, 1, <<"-", "-", ">">>, <<>>)
    IN  IF Len(parts) # 2 THEN <<>>
        ELSE IF _parse_srt_timestamp(parts[1]) = None
                \/ _parse_srt_timestamp(parts[2]) = None THEN <<>>
        ELSE <<_parse_srt_timestamp(parts[1]), _parse_srt_timestamp(parts[2])>>

\* the while loop of parse_srt, lines 136-175, from line i on
RECURSIVE ParseBlocks(_, _, _)
ParseBlocks(lines, i, cues) ==
    LET n == Len(lines)
        first == SkipWhile(lines, i, TRUE)
        at == IF first <= n /\ isdigit(strip(lines[first])) THEN first + 1 ELSE first
        body == at + 1
        stop == SkipWhile(lines, body, FALSE)
        cue_text == strip(JoinLines(lines, body, stop))
    IN  IF first > n \/ at > n THEN cues
        ELSE IF ~Contains(lines[at], <<"-", "-", ">">>)
             THEN ParseBlocks(lines, SkipWhile(lines, at, FALSE), cues)
        ELSE IF CueTimes(strip(lines[at])) = <<>>
             THEN ParseBlocks(lines, stop, cues)
        ELSE ParseBlocks(lines, stop,
                 IF cue_text # <<>>
                 THEN Append(cues, [start_ms |-> CueTimes(strip(lines[at]))[1],
                                    end_ms |-> CueTimes(strip(lines[at]))[2],
                                    text |-> cue_text])
                 ELSE cues)

\* parse_srt, lines 126-176, of the document whose lines are given
parse_srt(lines) ==
    ParseBlocks(lines, 1, <<>>)

\* ------------------------------------------------------------------
\* Ingestion (apps/lessons/api/v1/views.py: ingest_text, ingest_srt)
\*
\* One request is handled; every objects.create() of the view is one step.
\* Rows written inside transaction.atomic() are in txn until the block is
\* left: without an exception they are committed to db, with one they are
\* discarded.  A row's id is its position in the sequence of rows written.
\* ------------------------------------------------------------------

\* ---- bounds ----
MaxIngestText == 3
MaxLines == 5
MaxSegmented == 3

\* the strings of at most n characters of A
Strings(A, n) ==
    UNION {[1..k -> A]: k \in 0..n}

\* characters of the texts ingested: two CJK characters, the ideographic full
\* stop and the space
IngestAlphabet ==
    {"U+4F60", "U+597D", "U+3002", " "}

\* IngestSerializer.text: a CharField trims its value and rejects a blank one
IngestTexts ==
    {s \in Strings(IngestAlphabet, MaxIngestText): s # <<>> /\ strip(s) = s}

\* the timestamps 00:00:01,000 and 00:00:02,500
Stamp1000 ==
    <<"0", "0", ":", "0", "0", ":", "0", "1", ",", "0", "0", "0">>

Stamp2500 ==
    <<"0", "0", ":", "0", "0", ":", "0", "2", ",", "5", "0", "0">>

\* a timestamp line
TimeLine(from, to) ==
    from \o <<" ", "-", "-", ">", " ">> \o to

\* lines of the subtitle files ingested: a blank line, a timestamp line, a
\* timestamp line that ends before it starts, a line of text
SrtLines ==
    {<<>>, TimeLine(Stamp1000, Stamp2500), TimeLine(Stamp2500, Stamp1000),
     <<"U+4F60", "U+597D">>}

\* IngestSrtSerializer.file, by its lines: a FileField rejects an empty file.
\* The files ingested are those whose timestamp lines each start the file or
\* follow a blank line, so that no timestamp line is read as cue text.
SrtFiles ==
    {f \in Strings(SrtLines, MaxLines):
        /\ f # <<>> /\ f # <<<<>>>>
        /\ \A i \in 2..Len(f):
              Contains(f[i], <<"-", "-", ">">>) => f[i - 1] = <<>>}

\* the headwords a dictionary may hold
Headwords ==
    {<<"U+4F60">>, <<"U+4F60", "U+597D">>}

\* lemma=None of a SentenceToken
NoLemma == <<>>

\* the cuts of a text into non-empty segments
RECURSIVE Segmentations(_)
Segmentations(text) ==
    IF text = <<>> THEN {<<>>}
    ELSE UNION {{<<SubSeq(text, 1, k)>> \o rest:
                    rest \in Segmentations(SubSeq(text, k + 1, Len(text)))}:
                k \in 1..Len(text)}

\* what jieba.lcut may return for a text: any of its cuts, and for a text of
\* more than MaxSegmented characters the text uncut or cut as the scanner does
lcuts(text) ==
    IF Len(text) <= MaxSegmented
    THEN Segmentations(text)
    ELSE {<<text>>, Scan(text, 1)}

\* the locals of a view that has validated its request
StartLocals ==
    [pc |-> "begin", cues |-> <<>>, sents |-> <<>>, s |-> 0, sent |-> 0,
     sent_index |-> 0, toks |-> <<>>, t |-> 0, c |-> 0, tok_index |-> 0,
     missing_characters |-> {}, streams |-> <<>>, response |-> [created |-> FALSE],
     raised |-> "none", queries |-> 0]

IngestInit ==
    /\ NoUpload /\ NoSettings /\ NoTransaction
    /\ cv2 = TRUE
    /\ timestamped = {}
    /\ frame_image = [l \in Lessons |-> [s \in Sentences |-> NULL]]
    /\ has_video_frames = [l \in Lessons |-> FALSE]
    /\ job = [j \in Jobs |-> NoRow]
    /\ stored = [j \in Jobs |-> FALSE]
    /\ executor = [j \in Jobs |-> "none"]
    /\ returned = [j \in Jobs |-> "no"]
    /\ run = [w \in Workers |-> Idle]
    /\ call = [op |-> "none"]
    /\ result = [op |-> "none"]
    /\ _HAS_JIEBA \in BOOLEAN
    /\ lemma_table \in SUBSET Headwords
    /\ request \in [view: {"ingest_text"}, text: IngestTexts, file: {<<>>},
                    translate: BOOLEAN]
                   \cup [view: {"ingest_srt"}, text: {<<>>}, file: SrtFiles,
                         translate: BOOLEAN]
    /\ local = StartLocals
    /\ txn = <<>>
    /\ db = <<>>

\* an exception raised inside the atomic block by the create of a row of the
\* given table: the block's rows are rolled back and the exception leaves the
\* view, whose locals are gone
Rollback(table) ==
    /\ txn' = <<>>
    /\ local' = [StartLocals EXCEPT !.pc = "error", !.raised = table]
    /\ db' = db

\* ingest_text lines 114-119, ingest_srt lines 205-220: the subtitle file is
\* parsed before the transaction is opened
Begin ==
    /\ local.pc = "begin"
    /\ local' = [local EXCEPT
                    !.cues = IF request.view = "ingest_srt"
                             THEN parse_srt(request.file) ELSE <<>>,
                    !.pc = "lesson"]
    /\ UNCHANGED <<video_vars, text_vars, upload_vars, settings_vars, connection,
                   lemma_table, request, txn, db>>

\* CreateLesson as it would be if the lesson were created before the atomic
\* block, in autocommit
CreateLesson_autocommit(raises) ==
    /\ local.pc = "lesson"
    /\ IF raises
       THEN Rollback("Lesson")
       ELSE /\ db' = Append(db, [table |-> "Lesson"])
            /\ txn' = txn
            /\ local' = [local EXCEPT !.pc = "source"]
    /\ UNCHANGED <<video_vars, text_vars, upload_vars, settings_vars, connection,
                   lemma_table, request>>

\* lines 122-128 and 223-230: Lesson.objects.create
CreateLesson(raises) ==
    /\ local.pc = "lesson"
    /\ IF raises
       THEN Rollback("Lesson")
       ELSE /\ txn' = Append(txn, [table |-> "Lesson"])
            /\ local' = [local EXCEPT !.pc = "source"]
            /\ db' = db
    /\ UNCHANGED <<video_vars, text_vars, upload_vars, settings_vars, connection,
                   lemma_table, request>>

\* the sentences to create: the split text (line 136), or the cues (line 240)
SentencesOf(req, cues) ==
    IF req.view = "ingest_text"
    THEN [k \in 1..Len(split_sentences(req.text)) |->
             [start_ms |-> None, end_ms |-> None, text |-> split_sentences(req.text)[k]]]
    ELSE cues

\* lines 129-137 and 232-239: SourceText.objects.create, then the sentence list
CreateSource(raises) ==
    /\ local.pc = "source"
    /\ IF raises
       THEN Rollback("SourceText")
       ELSE /\ txn' = Append(txn, [table |-> "SourceText", lesson |-> 1])
            /\ local' = [local EXCEPT
                            !.sents = SentencesOf(request, local.cues),
                            !.sent_index = 1,
                            !.s = 1,
                            !.pc = IF SentencesOf(request, local.cues) = <<>>
                                   THEN "commit" ELSE "sentence"]
            /\ db' = db
    /\ UNCHANGED <<video_vars, text_vars, upload_vars, settings_vars, connection,
                   lemma_table, request>>

\* SentenceRow as it would be if the cue's times were not passed on
SentenceRow_without_times(index, cur) ==
    [table |-> "Sentence", lesson |-> 1, index |-> index, text |-> cur.text,
     start_ms |-> None, end_ms |-> None]

\* the row of lines 139-142 and 241-250
SentenceRow(index, cur) ==
    [table |-> "Sentence", lesson |-> 1, index |-> index, text |-> cur.text,
     start_ms |-> cur.start_ms, end_ms |-> cur.end_ms]

\* lines 139-146 and 241-254: Sentence.objects.create for the current
\* sentence, then tokenize; lcut is the segmenter's answer when it is used
CreateSentence(raises, lcut) ==
    LET cur == local.sents[local.s]
        toks == tokenize(cur.text, _HAS_JIEBA, lcut)
    IN  /\ local.pc = "sentence"
        /\ IF raises
           THEN Rollback("Sentence")
           ELSE /\ txn' = Append(txn, SentenceRow(local.sent_index, cur))
                /\ local' = [local EXCEPT
                                !.sent = Len(txn) + 1,
                                !.sent_index = @ + 1,
                                !.toks = toks,
                                !.streams = Append(@, toks),
                                !.tok_index = 1,
                                !.t = 1,
                                !.c = 1,
                                !.pc = IF toks = <<>> THEN "translate" ELSE "token"]
                /\ db' = db
        /\ UNCHANGED <<video_vars, text_vars, upload_vars, settings_vars, connection,
                   lemma_table, request>>

\* Lemma.objects.filter(simplified=text).only("id").first(): the row's key, or
\* NoLemma
Lookup(text) ==
    IF text \in lemma_table THEN text ELSE NoLemma

\* the Lemma queries issued on the way to the token row about to be written
\* (lines 150 and 154): none for a token that is no word, one for a word, and
\* for a word without a match one more for each of its characters
Queries(tok, c) ==
    IF tok.kind # "word" THEN 0
    ELSE IF Lookup(tok.text) # NoLemma THEN 1
    ELSE IF c = 1 THEN 2
    ELSE 1

\* NoteMissing as it would be if every character of an unmatched word were
\* reported
NoteMissing_every_character(missing, ch_lemma, ch) ==
    missing \cup {ch}

\* lines 155-156 and 262-263: a character without a lemma is reported
NoteMissing(missing, ch_lemma, ch) ==
    IF ch_lemma = NoLemma THEN missing \cup {ch} ELSE missing

\* the for statements of lines 147 and 153: the locals after the token, or
\* the character, just written
AfterToken(loc, expanded) ==
    IF expanded /\ loc.c < Len(loc.toks[loc.t].text)
    THEN [loc EXCEPT !.c = @ + 1]
    ELSE [loc EXCEPT !.c = 1, !.t = @ + 1,
                     !.pc = IF loc.t < Len(loc.toks) THEN "token" ELSE "translate"]

\* CreateToken as it would be if the per-character tokens all took the index
\* of the word they replace
CreateToken_one_index_per_word(raises) ==
    LET tok == local.toks[local.t]
        lemma == IF tok.kind = "word" THEN Lookup(tok.text) ELSE NoLemma
        expanded == tok.kind = "word" /\ lemma = NoLemma
        ch == <<tok.text[local.c]>>
        row == IF expanded
               THEN [table |-> "SentenceToken", sentence |-> local.sent,
                     index |-> local.tok_index, text |-> ch, kind |-> tok.kind,
                     lemma |-> Lookup(ch)]
               ELSE [table |-> "SentenceToken", sentence |-> local.sent,
                     index |-> local.tok_index, text |-> tok.text, kind |-> tok.kind,
                     lemma |-> lemma]
        noted == IF expanded
                 THEN [local EXCEPT !.missing_characters = NoteMissing(@, Lookup(ch), ch[1])]
                 ELSE local
        last == ~expanded \/ local.c = Len(tok.text)
    IN  /\ local.pc = "token"
        /\ IF raises
           THEN Rollback("SentenceToken")
           ELSE /\ txn' = Append(txn, row)
                /\ local' = AfterToken([noted EXCEPT
                                !.tok_index = IF last THEN @ + 1 ELSE @], expanded)
                /\ db' = db
        /\ UNCHANGED <<video_vars, text_vars, upload_vars, settings_vars, connection,
                   lemma_table, request>>

\* lines 147-174 and 255-281: one SentenceToken.objects.create: the token as
\* it is, or, for a word without an exact match, one of its characters
CreateToken(raises) ==
    LET tok == local.toks[local.t]
        lemma == IF tok.kind = "word" THEN Lookup(tok.text) ELSE NoLemma
        expanded == tok.kind = "word" /\ lemma = NoLemma
        ch == <<tok.text[local.c]>>
        row == IF expanded
               THEN [table |-> "SentenceToken", sentence |-> local.sent,
                     index |-> local.tok_index, text |-> ch, kind |-> tok.kind,
                     lemma |-> Lookup(ch)]
               ELSE [table |-> "SentenceToken", sentence |-> local.sent,
                     index |-> local.tok_index, text |-> tok.text, kind |-> tok.kind,
                     lemma |-> lemma]
        noted == IF expanded
                 THEN [local EXCEPT !.missing_characters = NoteMissing(@, Lookup(ch), ch[1])]
                 ELSE local
    IN  /\ local.pc = "token"
        /\ IF raises
           THEN Rollback("SentenceToken")
           ELSE /\ txn' = Append(txn, row)
                /\ local' = AfterToken([noted EXCEPT !.tok_index = @ + 1,
                                                     !.queries = @ + Queries(tok, local.c)],
                                       expanded)
                /\ db' = db
        /\ UNCHANGED <<video_vars, text_vars, upload_vars, settings_vars, connection,
                   lemma_table, request>>

\* the for statements of lines 138 and 240: the next sentence, or the end of
\* the atomic block
AfterSentence(loc) ==
    IF loc.s < Len(loc.sents)
    THEN [loc EXCEPT !.s = @ + 1, !.pc = "sentence"]
    ELSE [loc EXCEPT !.pc = "commit"]

\* lines 177-190 and 283-295: when asked to translate, translate_text is
\* called and a translation it returns (mt) is stored
Translate(mt, raises) ==
    /\ local.pc = "translate"
    /\ IF request.translate /\ mt
       THEN IF raises
            THEN Rollback("SentenceTranslation")
            ELSE /\ txn' = Append(txn, [table |-> "SentenceTranslation",
                                        sentence |-> local.sent, source |-> "machine"])
                 /\ local' = AfterSentence(local)
                 /\ db' = db
       ELSE /\ ~raises
            /\ (mt => request.translate)
            /\ local' = AfterSentence(local)
            /\ UNCHANGED <<txn, db>>
    /\ UNCHANGED <<video_vars, text_vars, upload_vars, settings_vars, connection,
                   lemma_table, request>>

\* the atomic block is left without an exception: its rows are committed
Commit ==
    /\ local.pc = "commit"
    /\ db' = db \o txn
    /\ txn' = <<>>
    /\ local' = [local EXCEPT !.pc = "respond"]
    /\ UNCHANGED <<video_vars, text_vars, upload_vars, settings_vars, connection,
                   lemma_table, request>>

\* lines 192-199 and 297-302: the response
Respond ==
    /\ local.pc = "respond"
    /\ local' = [local EXCEPT
                    !.response =
                        [created |-> TRUE,
                         sentence_count |->
                             Len(SelectSeq(db, LAMBDA row: row.table = "Sentence")),
                         missing_characters |-> local.missing_characters],
                    !.pc = "done"]
    /\ UNCHANGED <<video_vars, text_vars, upload_vars, settings_vars, connection,
                   lemma_table, request, txn, db>>

IngestNext ==
    \/ Begin
    \/ \E raises \in BOOLEAN: CreateLesson(raises)
    \/ \E raises \in BOOLEAN: CreateSource(raises)
    \/ \E raises \in BOOLEAN:
          \E lcut \in IF _HAS_JIEBA /\ local.pc = "sentence"
                      THEN lcuts(local.sents[local.s].text) ELSE {<<>>}:
              CreateSentence(raises, lcut)
    \/ \E raises \in BOOLEAN: CreateToken(raises)
    \/ \E mt \in BOOLEAN, raises \in BOOLEAN: Translate(mt, raises)
    \/ Commit
    \/ Respond

IngestSpec ==
    IngestInit /\ [][IngestNext]_vars

\* ------------------------------------------------------------------
\* Properties of the ingestion
\* ------------------------------------------------------------------

\* the committed rows of a table
Rows(table) ==
    SelectSeq(db, LAMBDA row: row.table = table)

\* the id of the k-th committed sentence
SentenceId(k) ==
    CHOOSE id \in 1..Len(db):
        /\ db[id].table = "Sentence"
        /\ Len(SelectSeq(SubSeq(db, 1, id), LAMBDA row: row.table = "Sentence")) = k

\* the committed tokens of the sentence with the given id, in id order
TokensOf(id) ==
    SelectSeq(db, LAMBDA row: row.table = "SentenceToken" /\ row.sentence = id)

\* the request has been answered
Ingested ==
    local.pc = "done"

\* the token stream a (text, kind) stream resolves to: a non-word token with
\* no lemma, a word that is a headword with its lemma, any other word as one
\* word token per character, each with the character's lemma if it has one
RECURSIVE Resolved(_)
Resolved(toks) ==
    IF toks = <<>> THEN <<>>
    ELSE LET tok == Head(toks)
         IN  (IF tok.kind # "word"
              THEN <<[text |-> tok.text, kind |-> tok.kind, lemma |-> NoLemma]>>
              ELSE IF tok.text \in lemma_table
              THEN <<[text |-> tok.text, kind |-> "word", lemma |-> tok.text]>>
              ELSE [k \in 1..Len(tok.text) |->
                       [text |-> <<tok.text[k]>>, kind |-> "word",
                        lemma |-> IF <<tok.text[k]>> \in lemma_table
                                  THEN <<tok.text[k]>> ELSE NoLemma]])
             \o Resolved(Tail(toks))

\* C13: nothing of a submission is persisted while its rows are being
\* written; after a create raised, no row of any of the five tables is
\* persisted or pending; after the request succeeded, its Lesson, its
\* SourceText, one Sentence per sentence, every sentence's tokens and the
\* translations obtained are all persisted.
C13_IngestionIsAtomic ==
    /\ local.pc \in {"begin", "lesson", "source", "sentence", "token", "translate",
                     "commit"} => db = <<>>
    /\ local.pc = "error" => db = <<>> /\ txn = <<>>
    /\ local.pc \in {"respond", "done"} =>
          /\ txn = <<>>
          /\ Len(Rows("Lesson")) = 1
          /\ Len(Rows("SourceText")) = 1
          /\ Len(Rows("Sentence")) = Len(local.sents)
          /\ \A k \in 1..Len(local.sents):
                Len(TokensOf(SentenceId(k))) = Len(Resolved(local.streams[k]))
          /\ Len(Rows("SentenceTranslation")) <= Len(local.sents)
          /\ ~request.translate => Rows("SentenceTranslation") = <<>>

\* the create of a token raised, after the lesson, the source and a sentence
\* had been written: nothing is persisted
C13_Witness ==
    /\ local.pc = "error"
    /\ local.raised = "SentenceToken"
    /\ db = <<>>

\* C14: after an ingestion, the tokens persisted for every sentence are, in
\* id order, the stream its tokenizer stream resolves to against the
\* dictionary (non-word tokens kept with no lemma, headwords kept with their
\* lemma, other words replaced by one word token per character with that
\* character's lemma or none), and they are indexed 1..N in that order.
C14_TokensResolved ==
    Ingested =>
        \A k \in 1..Len(local.streams):
            LET rows == TokensOf(SentenceId(k))
                want == Resolved(local.streams[k])
            IN  /\ Len(rows) = Len(want)
                /\ \A n \in 1..Len(rows):
                      /\ rows[n].index = n
                      /\ rows[n].text = want[n].text
                      /\ rows[n].kind = want[n].kind
                      /\ rows[n].lemma = want[n].lemma

\* a sentence cut into a two-character word that is no headword and a full
\* stop, its first character a headword: three tokens, the first with a lemma
C14_Witness ==
    /\ Ingested
    /\ lemma_table = {<<"U+4F60">>}
    /\ \E k \in 1..Len(local.streams):
          /\ local.streams[k] = <<[text |-> <<"U+4F60", "U+597D">>, kind |-> "word"],
                                  [text |-> <<"U+3002">>, kind |-> "punct"]>>
          /\ Len(TokensOf(SentenceId(k))) = 3
          /\ TokensOf(SentenceId(k))[1].lemma = <<"U+4F60">>
          /\ TokensOf(SentenceId(k))[2].lemma = NoLemma

\* the characters of the word tokens that are no headword
UnmatchedCharacters ==
    UNION {UNION {{local.streams[k][n].text[m]: m \in 1..Len(local.streams[k][n].text)}:
                  n \in {i \in 1..Len(local.streams[k]):
                            /\ local.streams[k][i].kind = "word"
                            /\ local.streams[k][i].text \notin lemma_table}}:
           k \in 1..Len(local.streams)}

\* C15: the missing_characters of the response are the characters that occur
\* in a word token that is no headword and that are no headword themselves.
C15_MissingCharacters ==
    Ingested =>
        local.response.missing_characters
            = {ch \in UnmatchedCharacters: <<ch>> \notin lemma_table}

\* the word of two characters is no headword and its first character is one:
\* only the second is reported, and the full stop is not
C15_Witness ==
    /\ Ingested
    /\ lemma_table = {<<"U+4F60">>}
    /\ \E k \in 1..Len(local.streams):
          local.streams[k] = <<[text |-> <<"U+4F60", "U+597D">>, kind |-> "word"],
                               [text |-> <<"U+3002">>, kind |-> "punct"]>>
    /\ local.response.missing_characters = {"U+597D"}

\* C16: the sentences persisted by an ingestion are indexed 1..n in id order;
\* for a text they are the n sentences split_sentences returns, in order and
\* without times; for a subtitle file they are the n cues parse_srt returns,
\* each with its cue's text, start_ms and end_ms.
C16_SentenceIndices ==
    Ingested =>
        LET rows == Rows("Sentence")
            want == IF request.view = "ingest_text"
                    THEN split_sentences(request.text) ELSE parse_srt(request.file)
        IN  /\ Len(rows) = Len(want)
            /\ local.response.sentence_count = Len(want)
            /\ \A k \in 1..Len(rows):
                  /\ rows[k].index = k
                  /\ IF request.view = "ingest_text"
                     THEN /\ rows[k].text = want[k]
                          /\ rows[k].start_ms = None
                          /\ rows[k].end_ms = None
                     ELSE /\ rows[k].text = want[k].text
                          /\ rows[k].start_ms = want[k].start_ms
                          /\ rows[k].end_ms = want[k].end_ms

\* a subtitle file of two cues has been ingested as sentences 1 and 2, the
\* second with the times 1000 and 2500
C16_Witness ==
    /\ Ingested
    /\ request.view = "ingest_srt"
    /\ Len(Rows("Sentence")) = 2
    /\ Rows("Sentence")[2].index = 2
    /\ Rows("Sentence")[2].start_ms = 1000
    /\ Rows("Sentence")[2].end_ms = 2500

\* C17 as stated: every persisted sentence with both times has end_ms >= start_ms.
C17_EndNotBeforeStart ==
    \A id \in 1..Len(db):
        (db[id].table = "Sentence" /\ db[id].start_ms # None /\ db[id].end_ms # None)
        => db[id].end_ms >= db[id].start_ms

\* ------------------------------------------------------------------
\* The endpoints that accept a video (apps/lessons/api/v1): ingest_srt,
\* LessonVideoJobViewSet.create and LessonViewSet.upload_video
\* ------------------------------------------------------------------

\* ---- bounds ----
MaxRequests == 3

LowerCase ==
    <<"a", "b", "c", "d", "e", "f", "g", "h", "i", "j", "k", "l", "m",
      "n", "o", "p", "q", "r", "s", "t", "u", "v", "w", "x", "y", "z">>

UpperCase ==
    <<"A", "B", "C", "D", "E", "F", "G", "H", "I", "J", "K", "L", "M",
      "N", "O", "P", "Q", "R", "S", "T", "U", "V", "W", "X", "Y", "Z">>

\* str.lower(), for the ASCII letters
lower(s) ==
    [k \in 1..Len(s) |->
        IF \E i \in 1..Len(UpperCase): UpperCase[i] = s[k]
        THEN LowerCase[CHOOSE i \in 1..Len(UpperCase): UpperCase[i] = s[k]]
        ELSE s[k]]

\* str.endswith(suffixes)
endswith(s, suffixes) ==
    \E x \in suffixes:
        Len(x) <= Len(s) /\ SubSeq(s, Len(s) - Len(x) + 1, Len(s)) = x

\* allowed, serializers.py lines 193 and 241
allowed ==
    {<<".", "m", "p", "4">>, <<".", "m", "o", "v">>, <<".", "m", "k", "v">>,
     <<".", "a", "v", "i">>}

\* the names of the files uploaded
VideoNames ==
    {<<"a", ".", "m", "p", "4">>, <<"a", ".", "M", "P", "4">>,
     <<"a", ".", "a", "v", "i">>, <<"a", ".", "t", "x", "t">>,
     <<"m", "p", "4">>}

\* validate_video of both serializers: the name is of a supported type
validate_video(name) ==
    endswith(lower(name), allowed)

UploadInit ==
    /\ NoCall /\ NoIngestion /\ NoUpload /\ NoSettings /\ NoTransaction
    /\ cv2 = TRUE
    /\ timestamped = {}
    /\ frame_image = [l \in Lessons |-> [s \in Sentences |-> NULL]]
    /\ has_video_frames = [l \in Lessons |-> FALSE]
    /\ job = [j \in Jobs |-> NoRow]
    /\ stored = [j \in Jobs |-> FALSE]
    /\ executor = [j \in Jobs |-> "none"]
    /\ returned = [j \in Jobs |-> "no"]
    /\ run = [w \in Workers |-> Idle]

\* the request is answered 400 by the serializer: nothing else happens
Rejected(view, name) ==
    /\ uploads' = Append(uploads, [view |-> view, name |-> name, job |-> NULL])
    /\ UNCHANGED <<video_vars, text_vars, ingest_vars, settings_vars, connection>>

\* the view calls create_lesson_video_job with the uploaded file
Accepted(view, name, j, l, setting, w) ==
    /\ create_lesson_video_job(j, l, setting, w)
    /\ uploads' = Append(uploads, [view |-> view, name |-> name, job |-> j])
    /\ UNCHANGED <<settings_vars, connection>>

\* ingest_srt with a video: IngestSrtSerializer.validate_video (views.py line
\* 206), then, the subtitles ingested, the job of lines 304-311
ingest_srt_video(name, j, l, setting, w) ==
    /\ Len(uploads) < MaxRequests
    /\ IF validate_video(name)
       THEN Accepted("ingest_srt", name, j, l, setting, w)
       ELSE Rejected("ingest_srt", name)

\* LessonVideoJobViewSet.create: LessonVideoJobCreateSerializer.validate_video
\* (views.py line 392), then its create
LessonVideoJobViewSet_create(name, j, l, setting, w) ==
    /\ Len(uploads) < MaxRequests
    /\ IF validate_video(name)
       THEN Accepted("lesson-video-jobs", name, j, l, setting, w)
       ELSE Rejected("lesson-video-jobs", name)

\* LessonViewSet.upload_video, lines 96-108: the file of the request is
\* passed to create_lesson_video_job as it is
upload_video(name, j, l, setting, w) ==
    /\ Len(uploads) < MaxRequests
    /\ Accepted("upload-video", name, j, l, setting, w)

UploadNext ==
    \E name \in VideoNames, j \in Jobs, l \in Lessons,
       setting \in {"thread", "sync"}, w \in Workers:
        \/ ingest_srt_video(name, j, l, setting, w)
        \/ LessonVideoJobViewSet_create(name, j, l, setting, w)
        \/ upload_video(name, j, l, setting, w)

UploadSpec ==
    UploadInit /\ [][UploadNext]_vars

\* C18 as stated: a request whose video is of an unsupported type creates no
\* job; every job row, every stored video and every dispatched invocation
\* comes from a request whose video name ends in .mp4, .mov, .mkv or .avi.
C18_UnsupportedTypeRejected ==
    /\ \A k \in 1..Len(uploads):
          ~validate_video(uploads[k].name) => uploads[k].job = NULL
    /\ \A j \in Jobs:
          (job[j].status # ABSENT \/ stored[j] \/ \E w \in Workers: run[w].job = j)
          => \E k \in 1..Len(uploads):
                uploads[k].job = j /\ validate_video(uploads[k].name)

\* ------------------------------------------------------------------
\* Calls of split_sentences and tokenize (apps/lessons/utils.py)
\* ------------------------------------------------------------------

\* ---- bounds ----
MaxText == 4

\* characters of the texts passed: a space, a sentence terminal that is CJK
\* punctuation, an ASCII sentence terminal, the comma and the full stop, which
\* are punctuation and not in SENT_END, an ASCII letter, an ASCII digit and a
\* CJK character
TextAlphabet ==
    {" ", "U+3002", "!", "U+FF0C", ".", "a", "1", "U+4F60"}

Texts ==
    Strings(TextAlphabet, MaxText)

\* what jieba.lcut(text) may return: a cut of the text, a cut with an empty
\* segment in it, or segments that leave the whitespace of the text out
jieba_lcut(text) ==
    lcuts(text)
    \cup {<<<<>>>> \o Scan(text, 1), Scan(text, 1) \o <<<<>>>>}
    \cup {SelectSeq(Scan(text, 1), LAMBDA t: ~isspace(t))}

TextInit ==
    /\ NoIngestion /\ NoUpload /\ NoSettings /\ NoTransaction
    /\ cv2 = TRUE
    /\ timestamped = {}
    /\ frame_image = [l \in Lessons |-> [s \in Sentences |-> NULL]]
    /\ has_video_frames = [l \in Lessons |-> FALSE]
    /\ job = [j \in Jobs |-> NoRow]
    /\ stored = [j \in Jobs |-> FALSE]
    /\ executor = [j \in Jobs |-> "none"]
    /\ returned = [j \in Jobs |-> "no"]
    /\ run = [w \in Workers |-> Idle]
    /\ _HAS_JIEBA \in BOOLEAN
    /\ call = [op |-> "none"]
    /\ result = [op |-> "none"]

\* the answers the segmenter may give, where it is installed
Answers(text) ==
    IF _HAS_JIEBA THEN jieba_lcut(text) ELSE {<<>>}

\* split_sentences(text) is called and returns
CallSplitSentences ==
    /\ call.op = "none"
    /\ \E text \in Texts:
        /\ call' = [op |-> "split_sentences", text |-> text]
        /\ result' = [op |-> "split_sentences", value |-> split_sentences(text)]
    /\ UNCHANGED <<video_vars, ingest_vars, upload_vars, settings_vars, connection,
                 _HAS_JIEBA>>

\* tokenize(text) is called and returns; lcut is the answer of the segmenter,
\* asked only where the segmenter is installed
CallTokenize ==
    /\ call.op = "none"
    /\ \E text \in Texts:
        \E lcut \in Answers(text):
            /\ call' = [op |-> "tokenize", text |-> text, lcut |-> lcut]
            /\ result' = [op |-> "tokenize",
                          value |-> tokenize(text, _HAS_JIEBA, lcut)]
    /\ UNCHANGED <<video_vars, ingest_vars, upload_vars, settings_vars, connection,
                 _HAS_JIEBA>>

\* a behaviour is one call
TextNext ==
    \/ CallSplitSentences
    \/ CallTokenize

TextSpec ==
    TextInit /\ [][TextNext]_vars

\* the strings of a sequence, joined
RECURSIVE Concat(_)
Concat(parts) ==
    IF parts = <<>> THEN <<>> ELSE Head(parts) \o Concat(Tail(parts))

\* a string with its whitespace removed
WithoutWhitespace(s) ==
    SelectSeq(s, LAMBDA ch: ch \notin Whitespace)

\* C19: split_sentences returns only non-empty strings without leading or
\* trailing whitespace; the sentences joined, whitespace removed, are the input
\* with its whitespace removed; an empty or all-whitespace input gives the
\* empty sequence.
C19_SplitSentences ==
    result.op = "split_sentences" =>
        /\ \A k \in 1..Len(result.value):
              result.value[k] # <<>> /\ strip(result.value[k]) = result.value[k]
        /\ WithoutWhitespace(Concat(result.value)) = WithoutWhitespace(call.text)
        /\ (call.text = <<>> \/ isspace(call.text)) => result.value = <<>>

\* a text with whitespace around a terminal and a tail without terminal has
\* been split into two sentences
C19_Witness ==
    /\ result.op = "split_sentences"
    /\ Len(result.value) = 2
    /\ Concat(result.value) # call.text
    /\ result.value[2][Len(result.value[2])] \notin SENT_END
    /\ \E k \in 1..Len(call.text): call.text[k] \in Whitespace

\* the texts of the tokens returned
TokenTexts(tokens) ==
    [k \in 1..Len(tokens) |-> tokens[k].text]

\* C20: without segmenter, the texts of the tokens of tokenize joined in order
\* are the input and no token is empty, so that every character is in exactly
\* one token; with the segmenter the same holds whenever its segments joined
\* are the input.
C20_TokensPartitionText ==
    (/\ result.op = "tokenize"
     /\ _HAS_JIEBA => Concat(call.lcut) = call.text)
    => /\ Concat(TokenTexts(result.value)) = call.text
       /\ \A k \in 1..Len(result.value): result.value[k].text # <<>>

\* the scanner has cut a text into a run of letters and digits, whitespace and
\* a further token
C20_Witness ==
    /\ result.op = "tokenize"
    /\ ~_HAS_JIEBA
    /\ Len(result.value) >= 3
    /\ \E k \in 1..Len(result.value): result.value[k].kind = "space"
    /\ \E k \in 1..Len(result.value): Len(result.value[k].text) >= 2

\* ------------------------------------------------------------------
\* Calls of parse_srt (apps/lessons/utils.py) on documents made of blocks
\* ------------------------------------------------------------------

\* ---- bounds ----
MaxBlocks == 3

\* the decimal digit of value v
Digit(v) ==
    <<"0", "1", "2", "3", "4", "5", "6", "7", "8", "9">>[v + 1]

RECURSIVE Power10(_)
Power10(k) ==
    IF k = 0 THEN 1 ELSE 10 * Power10(k - 1)

\* n written with w digits
Pad(n, w) ==
    [k \in 1..w |-> Digit((n \div Power10(w - k)) % 10)]

\* the timestamp HH:MM:SS,mmm of a time
StampOf(t) ==
    Pad(t.hh, 2) \o <<":">> \o Pad(t.mm, 2) \o <<":">> \o Pad(t.ss, 2)
    \o <<",">> \o Pad(t.ms, 3)

\* hh*3600000 + mm*60000 + ss*1000 + mmm
Milliseconds(t) ==
    t.hh * 3600000 + t.mm * 60000 + t.ss * 1000 + t.ms

\* the times of the cues of the documents: start and end
CueClock ==
    {<<[hh |-> 0, mm |-> 0, ss |-> 1, ms |-> 0], [hh |-> 0, mm |-> 0, ss |-> 2, ms |-> 500]>>,
     <<[hh |-> 1, mm |-> 2, ss |-> 3, ms |-> 4], [hh |-> 12, mm |-> 59, ss |-> 59, ms |-> 999]>>}

\* the texts of the cues: none, one line, two lines
CueTextLines ==
    {<<>>, <<<<"U+4F60", "U+597D">>>>, <<<<"U+4F60">>, <<"U+597D", "U+3002">>>>}

\* a well-formed block: an optional index line, a timestamp line, text lines
CueBlocks ==
    [kind: {"cue"}, index: BOOLEAN, times: CueClock, text: CueTextLines]

\* the lines of the malformed blocks: no timestamp line (with and without an
\* index line, an index line alone), a timestamp with a full stop for the
\* comma, a timestamp line with one timestamp, one with three
MalformedLines ==
    {<<<<"U+4F60", "U+597D">>>>,
     <<<<"7">>, <<"U+4F60", "U+597D">>>>,
     <<<<"7">>>>,
     <<<<"0", "0", ":", "0", "0", ":", "0", "1", ".", "0", "0", "0">>
         \o <<" ", "-", "-", ">", " ">> \o Stamp2500, <<"U+4F60">>>>,
     <<Stamp1000 \o <<" ", "-", "-", ">">>, <<"U+4F60">>>>,
     <<Stamp1000 \o <<" ", "-", "-", ">", " ">> \o Stamp2500
         \o <<" ", "-", "-", ">", " ">> \o Stamp2500, <<"U+4F60">>>>}

MalformedBlocks ==
    [kind: {"malformed"}, lines: MalformedLines]

\* the lines of a block
BlockLines(b) ==
    IF b.kind = "malformed" THEN b.lines
    ELSE (IF b.index THEN <<<<"1">>>> ELSE <<>>)
         \o <<TimeLine(StampOf(b.times[1]), StampOf(b.times[2]))>>
         \o b.text

\* the lines of a document: its blocks, a blank line between two blocks
RECURSIVE DocumentLines(_)
DocumentLines(blocks) ==
    IF blocks = <<>> THEN <<>>
    ELSE IF Len(blocks) = 1 THEN BlockLines(blocks[1])
    ELSE BlockLines(blocks[1]) \o <<<<>>>> \o DocumentLines(Tail(blocks))

\* the documents: at most MaxBlocks blocks
Documents ==
    UNION {[1..k -> CueBlocks \cup MalformedBlocks]: k \in 1..MaxBlocks}

SrtInit ==
    /\ NoIngestion /\ NoUpload /\ NoSettings /\ NoTransaction
    /\ cv2 = TRUE
    /\ timestamped = {}
    /\ frame_image = [l \in Lessons |-> [s \in Sentences |-> NULL]]
    /\ has_video_frames = [l \in Lessons |-> FALSE]
    /\ job = [j \in Jobs |-> NoRow]
    /\ stored = [j \in Jobs |-> FALSE]
    /\ executor = [j \in Jobs |-> "none"]
    /\ returned = [j \in Jobs |-> "no"]
    /\ run = [w \in Workers |-> Idle]
    /\ _HAS_JIEBA = FALSE
    /\ call = [op |-> "none"]
    /\ result = [op |-> "none"]

\* parse_srt(text) is called on a document and returns; the document may
\* start and end with a blank line
CallParseSrt ==
    /\ call.op = "none"
    /\ \E blocks \in Documents, margin \in {<<>>, <<<<>>>>}:
        /\ call' = [op |-> "parse_srt", blocks |-> blocks,
                    lines |-> margin \o DocumentLines(blocks) \o margin]
        /\ result' = [op |-> "parse_srt",
                      value |-> parse_srt(margin \o DocumentLines(blocks) \o margin)]
    /\ UNCHANGED <<video_vars, ingest_vars, upload_vars, settings_vars, connection,
                 _HAS_JIEBA>>

SrtNext ==
    CallParseSrt

SrtSpec ==
    SrtInit /\ [][SrtNext]_vars

\* the lines of a text joined with single spaces
RECURSIVE JoinWithSpaces(_)
JoinWithSpaces(ls) ==
    IF ls = <<>> THEN <<>>
    ELSE IF Len(ls) = 1 THEN ls[1]
    ELSE ls[1] \o <<" ">> \o JoinWithSpaces(Tail(ls))

\* the triples of the well-formed blocks with text, in document order
RECURSIVE TriplesOf(_)
TriplesOf(blocks) ==
    IF blocks = <<>> THEN <<>>
    ELSE (IF blocks[1].kind = "cue" /\ blocks[1].text # <<>>
          THEN <<[start_ms |-> Milliseconds(blocks[1].times[1]),
                  end_ms |-> Milliseconds(blocks[1].times[2]),
                  text |-> JoinWithSpaces(blocks[1].text)]>>
          ELSE <<>>)
         \o TriplesOf(Tail(blocks))

\* C21: parse_srt returns, in document order, one triple (start_ms, end_ms,
\* text) for every well-formed block with text, each time being
\* hh*3600000 + mm*60000 + ss*1000 + mmm and the lines of the text joined with
\* single spaces, and nothing for a malformed block, wherever the malformed
\* blocks stand.
C21_ParseSrtTriples ==
    result.op = "parse_srt" => result.value = TriplesOf(call.blocks)

\* a document with a malformed block between two well-formed ones, one of
\* them with two lines of text and a time of more than an hour, has been parsed
C21_Witness ==
    /\ result.op = "parse_srt"
    /\ Len(call.blocks) = 3
    /\ call.blocks[1].kind = "cue" /\ Len(call.blocks[1].text) = 2
    /\ call.blocks[1].times[1].hh = 1
    /\ call.blocks[2].kind = "malformed"
    /\ call.blocks[3].kind = "cue" /\ call.blocks[3].text # <<>>
    /\ Len(result.value) = 2

\* ------------------------------------------------------------------
\* LessonSettingsSerializer.update (apps/lessons/api/v1/serializers.py)
\* ------------------------------------------------------------------

\* the attributes of a LessonSettings row a request may name
SettingsAttrs ==
    {"show_pinyin_only_for_unfamiliar", "character_size", "show_frame_images",
     "autoplay_audio_on_next"}

\* the values a request may give to them
SettingsValues ==
    [show_pinyin_only_for_unfamiliar: BOOLEAN, character_size: {28, 32},
     show_frame_images: BOOLEAN, autoplay_audio_on_next: BOOLEAN]

\* Lesson.audio_url: blank, or the address of an audio file
AudioUrls ==
    {"", "https://cdn.example.com/audio.mp3"}

SettingsInit ==
    /\ NoCall /\ NoIngestion /\ NoUpload /\ NoSettings /\ NoTransaction
    /\ cv2 = TRUE
    /\ timestamped = {}
    /\ frame_image = [l \in Lessons |-> [s \in Sentences |-> NULL]]
    /\ has_video_frames = [l \in Lessons |-> FALSE]
    /\ job = [j \in Jobs |-> NoRow]
    /\ stored = [j \in Jobs |-> FALSE]
    /\ executor = [j \in Jobs |-> "none"]
    /\ returned = [j \in Jobs |-> "no"]
    /\ run = [w \in Workers |-> Idle]

\* a lesson is saved in the admin site: LessonAdmin edits every field of it
LessonAdmin_save(l, frames, audio) ==
    /\ has_video_frames' = [has_video_frames EXCEPT ![l] = frames]
    /\ audio_url' = [audio_url EXCEPT ![l] = audio]
    /\ validated_data' = [validated_data EXCEPT !.pc = "none"]
    /\ UNCHANGED <<text_vars, ingest_vars, upload_vars, connection, cv2, timestamped,
                   frame_image, job, stored, executor, returned, run, settings>>

\* lines 144-147: the value stored for attr when value is requested
Stored(attr, value) ==
    IF attr = "show_frame_images" /\ ~has_video_frames[settings.lesson] THEN FALSE
    ELSE IF attr = "autoplay_audio_on_next" /\ audio_url[settings.lesson] = "" THEN FALSE
    ELSE value

\* LessonSettingsSerializer.update, lines 140-155: attrs are the attributes of
\* the validated data, values what it gives them and, for the attributes not
\* named, the row
update(attrs, values) ==
    /\ \A a \in SettingsAttrs \ attrs: values[a] = settings[a]
    /\ settings' =
          [a \in DOMAIN settings |->
              IF a \in attrs THEN Stored(a, values[a]) ELSE settings[a]]
    /\ validated_data' = [pc |-> "update returned", attrs |-> attrs, values |-> values]
    /\ UNCHANGED <<video_vars, text_vars, ingest_vars, upload_vars, connection,
                   audio_url>>

SettingsNext ==
    \/ \E l \in Lessons, frames \in BOOLEAN, audio \in AudioUrls:
          LessonAdmin_save(l, frames, audio)
    \/ \E attrs \in SUBSET SettingsAttrs, values \in SettingsValues:
          update(attrs, values)

SettingsSpec ==
    SettingsInit /\ [][SettingsNext]_vars

\* C22 as stated: when an update has returned, show_frame_images is stored
\* true only if the lesson has video frames and autoplay_audio_on_next only if
\* the lesson has an audio_url, whatever was requested; the other requested
\* attributes are stored as given, and so are these two when the lesson has
\* frames / audio.
C22_SettingsRespectMedia ==
    validated_data.pc = "update returned" =>
        /\ settings.show_frame_images => has_video_frames[settings.lesson]
        /\ settings.autoplay_audio_on_next => audio_url[settings.lesson] # ""
        /\ \A a \in validated_data.attrs \ {"show_frame_images", "autoplay_audio_on_next"}:
              settings[a] = validated_data.values[a]
        /\ ("show_frame_images" \in validated_data.attrs
                /\ has_video_frames[settings.lesson])
              => settings.show_frame_images = validated_data.values.show_frame_images
        /\ ("autoplay_audio_on_next" \in validated_data.attrs
                /\ audio_url[settings.lesson] # "")
              => settings.autoplay_audio_on_next
                     = validated_data.values.autoplay_audio_on_next

\* ------------------------------------------------------------------
\* create_lesson_video_job called inside and outside transaction.atomic()
\* (apps/lessons/video_jobs.py, lines 25-52)
\* ------------------------------------------------------------------

TxnInit ==
    /\ NoCall /\ NoIngestion /\ NoUpload /\ NoSettings /\ NoTransaction
    /\ cv2 \in BOOLEAN
    /\ timestamped \in SUBSET Sentences
    /\ frame_image = [l \in Lessons |-> [s \in Sentences |-> NULL]]
    /\ has_video_frames = [l \in Lessons |-> FALSE]
    /\ job = [j \in Jobs |-> NoRow]
    /\ stored = [j \in Jobs |-> FALSE]
    /\ executor = [j \in Jobs |-> "none"]
    /\ returned = [j \in Jobs |-> "no"]
    /\ run = [w \in Workers |-> Idle]

\* the caller enters transaction.atomic()
AtomicEnter ==
    /\ ~connection.in_atomic_block
    /\ connection.run_on_commit = <<>>
    /\ connection' = [connection EXCEPT !.in_atomic_block = TRUE]
    /\ UNCHANGED <<video_vars, text_vars, ingest_vars, upload_vars, settings_vars>>

\* create_lesson_video_job inside the block as it would be if _enqueue were
\* called at once
create_lesson_video_job_in_atomic_enqueue_now(j, l, setting) ==
    /\ connection.in_atomic_block
    /\ Fresh(j, l)
    /\ \E w \in Workers: Free(w)
    /\ connection' = [connection EXCEPT
            !.inserted[j] =
                [lesson |-> l, status |-> QUEUED, error_message |-> "",
                 total_frames |-> Cardinality(timestamped),
                 processed_frames |-> 0, started_at |-> NULL, completed_at |-> NULL]]
    /\ stored' = [stored EXCEPT ![j] = TRUE]
    /\ executor' = [executor EXCEPT ![j] = setting]
    /\ run' = [run EXCEPT ![CHOOSE w \in Workers: Free(w)] =
                  enqueue_lesson_video_job(j, setting)]
    /\ UNCHANGED <<text_vars, ingest_vars, upload_vars, settings_vars, cv2,
                   timestamped, frame_image, has_video_frames, job, returned>>

\* create_lesson_video_job inside the block, lines 33-52: the row is written
\* in the transaction, the file is saved to storage, and connection.in_atomic_block
\* being true _enqueue is handed to transaction.on_commit
create_lesson_video_job_in_atomic(j, l, setting) ==
    /\ connection.in_atomic_block
    /\ Fresh(j, l)
    /\ connection' = [connection EXCEPT
            !.inserted[j] =
                [lesson |-> l, status |-> QUEUED, error_message |-> "",
                 total_frames |-> Cardinality(timestamped),
                 processed_frames |-> 0, started_at |-> NULL, completed_at |-> NULL],
            !.run_on_commit = Append(@, j)]
    /\ stored' = [stored EXCEPT ![j] = TRUE]
    /\ executor' = [executor EXCEPT ![j] = setting]
    /\ UNCHANGED <<text_vars, ingest_vars, upload_vars, settings_vars, cv2,
                   timestamped, frame_image, has_video_frames, job, returned, run>>

\* the block is left without an exception: its rows are committed
AtomicCommit ==
    /\ connection.in_atomic_block
    /\ job' = [j \in Jobs |->
                  IF connection.inserted[j].status # ABSENT
                  THEN connection.inserted[j] ELSE job[j]]
    /\ connection' = [connection EXCEPT
            !.in_atomic_block = FALSE,
            !.inserted = [j \in Jobs |-> NoRow],
            !.committed = @ \cup {j \in Jobs: connection.inserted[j].status # ABSENT}]
    /\ UNCHANGED <<text_vars, ingest_vars, upload_vars, settings_vars, cv2,
                   timestamped, frame_image, has_video_frames, stored, executor,
                   returned, run>>

\* after the commit the functions handed to on_commit are called in order:
\* _enqueue, line 44-45
RunOnCommit(w) ==
    /\ ~connection.in_atomic_block
    /\ connection.run_on_commit # <<>>
    /\ Free(w)
    /\ run' = [run EXCEPT ![w] =
                  enqueue_lesson_video_job(Head(connection.run_on_commit),
                                           executor[Head(connection.run_on_commit)])]
    /\ connection' = [connection EXCEPT !.run_on_commit = Tail(@)]
    /\ UNCHANGED <<text_vars, ingest_vars, upload_vars, settings_vars, cv2,
                   timestamped, frame_image, has_video_frames, job, stored,
                   executor, returned>>

\* the block is left with an exception: its rows are discarded and so are the
\* functions handed to on_commit; the file stays in storage
AtomicRollback ==
    /\ connection.in_atomic_block
    /\ connection' = [connection EXCEPT
            !.in_atomic_block = FALSE,
            !.inserted = [j \in Jobs |-> NoRow],
            !.run_on_commit = <<>>,
            !.rolled_back = [j \in Jobs |->
                IF connection.inserted[j].status # ABSENT
                THEN connection.inserted[j].lesson ELSE @[j]]]
    /\ UNCHANGED <<video_vars, text_vars, ingest_vars, upload_vars, settings_vars>>

\* create_lesson_video_job called with the connection in autocommit mode
CreateInAutocommit ==
    /\ ~connection.in_atomic_block
    /\ connection.run_on_commit = <<>>
    /\ Create

TxnNext ==
    \/ AtomicEnter
    \/ \E j \in Jobs, l \in Lessons, setting \in {"thread", "sync"}:
          create_lesson_video_job_in_atomic(j, l, setting)
    \/ AtomicCommit
    \/ \E w \in Workers: RunOnCommit(w)
    \/ AtomicRollback
    \/ CreateInAutocommit
    \/ \E w \in Workers: RunnerStep(w)
    \/ \E w \in Workers: Return(w)

TxnSpec ==
    TxnInit /\ [][TxnNext]_vars

\* C23: no invocation of the runner exists for a job whose row is written in a
\* block that is still open or was rolled back, and no invocation that has
\* not returned has looked up a row it could not see; a job whose row is visible has its invocation
\* unless its _enqueue is waiting to be called after the commit, so that a job
\* created in autocommit mode has been dispatched when
\* create_lesson_video_job returns.
C23_DispatchAfterCommit ==
    /\ \A w \in Workers:
          run[w].pc # "idle" =>
              /\ connection.inserted[run[w].job].status = ABSENT
              /\ connection.rolled_back[run[w].job] = NULL
    /\ \A w \in Workers:
          run[w].pc \notin {"idle", "load", "returned"} => run[w].found # ABSENT
    /\ \A j \in Jobs:
          job[j].status # ABSENT =>
              \/ \E w \in Workers: run[w].job = j
              \/ /\ j \in connection.committed
                 /\ \E k \in 1..Len(connection.run_on_commit):
                       connection.run_on_commit[k] = j

\* a job created in a block that was rolled back has no invocation, and one
\* created in a block that was committed has been looked up by its invocation
C23_Witness ==
    /\ \E j \in Jobs: connection.rolled_back[j] # NULL
    /\ \E w \in Workers:
          /\ run[w].job \in connection.committed
          /\ run[w].found = QUEUED

\* ------------------------------------------------------------------
\* The decoder handle of one run of process_lesson_video_job
\* ------------------------------------------------------------------

C25_SingleBatchedLookup ==
    local.queries <= 1

\* ------------------------------------------------------------------
\* The kinds tokenize assigns
\* ------------------------------------------------------------------

\* C26 as stated: every token of tokenize has the kind decided in this order:
\* space if its text is all whitespace, punct if every character of it is in
\* the punctuation set, number if it is all digits, latin if every character
\* is an ASCII letter or digit, word otherwise.
C26_KindOrder ==
    result.op = "tokenize" =>
        \A k \in 1..Len(result.value):
            LET t == result.value[k].text
            IN  result.value[k].kind =
                    IF isspace(t) THEN "space"
                    ELSE IF \A i \in 1..Len(t): t[i] \in PUNCT_CHARS THEN "punct"
                    ELSE IF isdigit(t) THEN "number"
                    ELSE IF \A i \in 1..Len(t): _is_ascii_letter_or_digit(t[i]) THEN "latin"
                    ELSE "word"

\* ------------------------------------------------------------------
\* The sentence terminals of split_sentences
\* ------------------------------------------------------------------

\* the full-width and the half-width period, exclamation mark, question mark
\* and semicolon
TerminalMarks ==
    {"U+3002", ".", "U+FF01", "!", "U+FF1F", "?", "U+FF1B", ";"}

\* C27 as stated: a text with k terminal marks (full-width or half-width
\* period, exclamation mark, question mark, semicolon) and text that is not
\* whitespace after the last of them is split into k + 1 sentences, each of
\* the first k ending with a terminal mark.
C27_EveryTerminalCloses ==
    LET text == strip(call.text)
        k == Cardinality({i \in 1..Len(text): text[i] \in TerminalMarks})
    IN  (/\ result.op = "split_sentences"
         /\ text # <<>>
         /\ text[Len(text)] \notin TerminalMarks)
        => /\ Len(result.value) = k + 1
           /\ \A i \in 1..k:
                 i <= Len(result.value)
                 /\ result.value[i][Len(result.value[i])] \in TerminalMarks

\* ------------------------------------------------------------------
\* The counters and timestamps of a job row
\* ------------------------------------------------------------------

\* C28: the timestamped sentences of the lesson staying as they were when the
\* job was created, every job row has 0 <= processed_frames <= total_frames,
\* and total_frames is the number of sentences an invocation iterates over.
C28_ProcessedWithinTotal ==
    /\ \A j \in Jobs:
          job[j].status # ABSENT =>
              /\ 0 <= job[j].processed_frames
              /\ job[j].processed_frames <= job[j].total_frames
    /\ \A w \in Workers:
          run[w].pc \in {"capture", "progress", "complete"} =>
              Len(run[w].sentences) = job[run[w].job].total_frames

\* a job of two frames is completed with both counted
C28_Witness ==
    \E j \in Jobs:
        /\ job[j].status = COMPLETED
        /\ job[j].total_frames = 2
        /\ job[j].processed_frames = 2

\* C29 as stated: in every job row, whatever the interleaving of the
\* invocations, completed_at is set exactly when the status is completed or
\* failed; started_at is set exactly when the job has entered processing (it
\* is set in a processing or completed job and not in a queued one); and a
\* completed job has an empty error_message.
C29_TimestampsMatchStatus ==
    \A j \in Jobs:
        job[j].status # ABSENT =>
            /\ (job[j].completed_at # NULL) <=> (job[j].status \in {COMPLETED, FAILED})
            /\ job[j].status \in {PROCESSING, COMPLETED} => job[j].started_at # NULL
            /\ job[j].status = QUEUED => job[j].started_at = NULL
            /\ job[j].status = COMPLETED => job[j].error_message = ""

\* ------------------------------------------------------------------
\* The batched resolver of apps/dictionary/examples.py, set against the
\* tokens an ingestion writes
\* ------------------------------------------------------------------

\* candidate_texts as it would be if the characters of the words were left out
candidate_texts_without_characters(streams) ==
    UNION {{streams[k][n].text:
               n \in {i \in 1..Len(streams[k]):
                         streams[k][i].kind = "word" /\ streams[k][i].text # <<>>}}:
           k \in 1..Len(streams)}

\* prepare_sentence_payloads, lines 17-27: the texts of the word tokens of all
\* sentences and their characters
candidate_texts(streams) ==
    UNION {UNION {{streams[k][n].text}
                  \cup {<<streams[k][n].text[m]>>: m \in 1..Len(streams[k][n].text)}:
                  n \in {i \in 1..Len(streams[k]):
                            streams[k][i].kind = "word" /\ streams[k][i].text # <<>>}}:
           k \in 1..Len(streams)}

\* _build_lemma_lookup, lines 75-82: one query, simplified__in=candidates; the
\* lookup is given by its keys, a lemma being known by its simplified form
_build_lemma_lookup(candidates) ==
    IF candidates = {} THEN {}
    ELSE {simplified \in lemma_table: simplified \in candidates}

\* lemma_lookup.get(text)
get(lemma_lookup, text) ==
    IF text \in lemma_lookup THEN text ELSE NoLemma

\* the loop of _build_tokens_for_sentence, lines 94-114, token_index being the
\* index of the next token
RECURSIVE BuildTokens(_, _, _)
BuildTokens(token_pairs, lemma_lookup, token_index) ==
    IF token_pairs = <<>> THEN <<>>
    ELSE LET tok == Head(token_pairs)
             tokens ==
                 IF tok.kind = "word"
                 THEN IF get(lemma_lookup, tok.text) # NoLemma
                      THEN <<[index |-> token_index, text |-> tok.text, kind |-> tok.kind,
                              lemma |-> get(lemma_lookup, tok.text)]>>
                      ELSE [m \in 1..Len(tok.text) |->
                               [index |-> token_index + m - 1, text |-> <<tok.text[m]>>,
                                kind |-> tok.kind,
                                lemma |-> get(lemma_lookup, <<tok.text[m]>>)]]
                 ELSE <<[index |-> token_index, text |-> tok.text, kind |-> tok.kind,
                         lemma |-> NoLemma]>>
         IN  tokens \o BuildTokens(Tail(token_pairs), lemma_lookup,
                                   token_index + Len(tokens))

\* _build_tokens_for_sentence, lines 85-116
_build_tokens_for_sentence(token_pairs, lemma_lookup) ==
    BuildTokens(token_pairs, lemma_lookup, 1)

\* the (index, text, kind, lemma) of the token rows written for sentence k
WrittenTokens(k) ==
    [n \in 1..Len(TokensOf(SentenceId(k))) |->
        [index |-> TokensOf(SentenceId(k))[n].index,
         text |-> TokensOf(SentenceId(k))[n].text,
         kind |-> TokensOf(SentenceId(k))[n].kind,
         lemma |-> TokensOf(SentenceId(k))[n].lemma]]

\* C30: for every tokenizer stream and every dictionary, the tokens (index,
\* text, kind, lemma) an ingestion has written for a sentence, resolving token
\* by token, are those _build_tokens_for_sentence gives for the stream over
\* the lookup built from the word texts and their characters.
C30_ResolversAgree ==
    Ingested =>
        \A k \in 1..Len(local.streams):
            WrittenTokens(k) =
                _build_tokens_for_sentence(
                    local.streams[k],
                    _build_lemma_lookup(candidate_texts(local.streams)))

\* an ingestion is over in which a word that is no headword was replaced by
\* its two characters, the second of them without a lemma, and another in
\* which a word of two characters is a headword
C30_Witness ==
    /\ Ingested
    /\ \E k \in 1..Len(local.streams):
          \E n \in 1..Len(local.streams[k]):
              /\ local.streams[k][n].kind = "word"
              /\ Len(local.streams[k][n].text) = 2
              /\ local.streams[k][n].text \notin lemma_table
              /\ <<local.streams[k][n].text[1]>> \in lemma_table
              /\ Len(WrittenTokens(k)) > Len(local.streams[k])
              /\ Cardinality(_build_lemma_lookup(candidate_texts(local.streams))) = 1

====
